---- MODULE Spec2Model ----
(***************************************************************************)
(* Model of the document composition engine and artifact addressing of     *)
(* the G-Cloud proposal generator (backend/app/services and                *)
(* backend/app/azure).                                                     *)
(*                                                                         *)
(* Strings are sequences of one-character strings, so that substring       *)
(* search, str.replace, startswith/endswith and path joining are computed  *)
(* the way the Python code computes them.  An XML tag is one element of    *)
(* such a sequence (a string longer than one character): no marker can     *)
(* match across it.                                                        *)
(***************************************************************************)
EXTENDS Integers, Sequences, FiniteSets, TLC

VARIABLES
    \* ---- placeholder substitution over the package (pass 1 / pass 2) ----
    spc,        \* position in generate_service_description
    title,      \* the title argument
    descr,      \* the description argument
    tree,       \* text nodes (w:t / a:t) of the main document part, in document order
    settings,   \* child elements of the settings part's root
    tmpl,       \* the template package as loaded: sequence of [name, data, utf8]
    pkg,        \* the saved package: sequence of [name, data, utf8]; <<>> before save
    treeOnce,   \* the text nodes after the first application of pass 1
    pkgOnce,    \* the saved package after the first application of pass 2
    wt_raises,  \* the xpath call of _replace_text_in_all_wt raises in this build
    \* ---- the body of the document tree (block nodes) ----
    bpc,        \* position in the tree operations
    body,       \* children of w:body, in order: [id, tag, style, runs]
    body0,      \* the body before the operation under study
    rmIdx,      \* the paragraph index handed to _remove_heading_block
    \* ---- the composition pipeline of generate_service_description ----
    cpc,            \* position in generate_service_description
    doc,            \* [b, n, cur]: the body, the next fresh node id, and the
                    \* paragraph the step in progress returned (0 for None)
    tpl,            \* the body of the template as loaded
    inp,            \* the arguments: title, description, features, benefits,
                    \* service_definition
    about_pa_block, \* the extracted About block
    last_para,      \* the paragraph _insert_full_content_block returned
    \* ---- build_service_blob_key ----
    kpc,            \* which keys have been built
    karg,           \* service_name, doc_type, gcloud_version, lot, extension
    key_final,      \* build_service_blob_key(..., draft=False)
    key_draft,      \* build_service_blob_key(..., draft=True)
    key_again,      \* a second build_service_blob_key(..., draft=False)
    \* ---- generate_service_description and the storage backend ----
    gpc,            \* position in generate_service_description
    backend,        \* "local", "s3" or "azure" (use_s3 / use_azure)
    req,            \* update_metadata or new_proposal_metadata, save_as_draft, title
    folder_exists,  \* whether the folder named by the metadata exists (local)
    loc,            \* the locals: folder_path, gcloud_version, doc_type, service_name,
                    \* actual_folder_name, lot, word_filename
    store,          \* the keys (local: paths) that hold an artifact
    store0,         \* the store when the call started
    partial,        \* the keys that hold a partly written artifact
    write_failed,   \* the write to the storage backend failed in this call
    outcome,        \* "none", "success" (a result was returned) or "error" (raised)
    delete_failed,  \* an unlink of the completing branch raised in this call
    conv,           \* what the remote PDF converter did: "none" (not called),
                    \* "ok", "raises", "status" (not 200) or "reports" (success false)
    result,         \* the dict generate_service_description returned
    response,       \* the GenerateResponse the route built from it
    \* ---- two concurrent generations for one artifact key ----
    rpc,            \* position of each worker in generate_service_description
    shared,         \* "local": word_path is the artifact; "remote": it is uploaded
    word_file,      \* the file at word_path: [exists, data]
    rpos,           \* the file offset of each worker's open file, in chunks
    rbuf,           \* the package each worker's pass 2 holds in memory
    published,      \* the object at the artifact key of the backend: [exists, data]
    \* ---- template resolution of the two generators ----
    tpc,            \* position in generate_service_description / generate_pricing_document
    generator,      \* "service_description" or "pricing"
    use_s3,         \* self.use_s3
    is_docker,      \* Path("/app").exists()
    template_env,   \* the environment-configured path or key; <<>> when not set
    on_disk,        \* the template files that exist on the filesystem
    template_bucket,\* self.template_bucket of the S3 service is set
    objects,        \* the keys that exist in the template bucket
    template_path,  \* the template the generator opens; <<>> before it is chosen
    raised,         \* the exception the call raised; "" for none
    touched,        \* what the call did to artifacts: "deleted", "written", "uploaded"
    \* ---- the proposal listings over the Azure blob store ----
    blobs,          \* the blobs of the container: [name, meta]
    by_owner,       \* the last response of get_proposals_by_owner
    admin_all,      \* the last response of get_all_proposals_admin
    \* ---- the questionnaire responses and their lock ----
    response_files, \* questionnaire_responses.json of each folder: response_data or absent
    locked_answers, \* for each folder, the answers stored when lock_questionnaire first succeeded
    http_status     \* what the last request returned

substVars == <<spc, title, descr, tree, settings, tmpl, pkg, treeOnce, pkgOnce, wt_raises>>

bodyVars == <<bpc, body, body0, rmIdx>>

composeVars == <<cpc, doc, tpl, inp, about_pa_block, last_para>>

keyVars == <<kpc, karg, key_final, key_draft, key_again>>

genVars == <<gpc, backend, req, folder_exists, loc, store, store0, partial, write_failed,
             outcome, delete_failed, conv, result, response>>

raceVars == <<rpc, shared, word_file, rpos, rbuf, published>>

tplVars == <<tpc, generator, use_s3, is_docker, template_env, on_disk, template_bucket, objects,
             template_path, raised, touched>>

listVars == <<blobs, by_owner, admin_all>>

quVars == <<response_files, locked_answers, http_status>>

vars == <<spc, title, descr, tree, settings, tmpl, pkg, treeOnce, pkgOnce, wt_raises,
          bpc, body, body0, rmIdx,
          cpc, doc, tpl, inp, about_pa_block, last_para,
          kpc, karg, key_final, key_draft, key_again,
          gpc, backend, req, folder_exists, loc, store, store0, partial, write_failed,
          outcome, delete_failed, conv, result, response,
          rpc, shared, word_file, rpos, rbuf, published,
          tpc, generator, use_s3, is_docker, template_env, on_disk, template_bucket, objects,
          template_path, raised, touched,
          blobs, by_owner, admin_all,
          response_files, locked_answers, http_status>>

(***************************************************************************)
(* Each specification below runs one machine; the variables of the others  *)
(* stay at these values.                                                   *)
(***************************************************************************)

SubstIdle ==
    /\ spc = "idle"
    /\ title = <<>>
    /\ descr = <<>>
    /\ tree = <<>>
    /\ settings = <<>>
    /\ tmpl = <<>>
    /\ pkg = <<>>
    /\ treeOnce = <<>>
    /\ pkgOnce = <<>>
    /\ wt_raises = FALSE

BodyIdle ==
    /\ bpc = "idle"
    /\ body = <<>>
    /\ body0 = <<>>
    /\ rmIdx = -1

ComposeIdle ==
    /\ cpc = "idle"
    /\ doc = <<>>
    /\ tpl = <<>>
    /\ inp = <<>>
    /\ about_pa_block = <<>>
    /\ last_para = 0

KeyIdle ==
    /\ kpc = "idle"
    /\ karg = <<>>
    /\ key_final = <<>>
    /\ key_draft = <<>>
    /\ key_again = <<>>

GenIdle ==
    /\ gpc = "idle"
    /\ backend = ""
    /\ req = <<>>
    /\ folder_exists = FALSE
    /\ loc = <<>>
    /\ store = {}
    /\ store0 = {}
    /\ partial = {}
    /\ write_failed = FALSE
    /\ outcome = "none"
    /\ delete_failed = FALSE
    /\ conv = "none"
    /\ result = <<>>
    /\ response = <<>>

RaceIdle ==
    /\ rpc = <<>>
    /\ shared = ""
    /\ word_file = <<>>
    /\ rpos = <<>>
    /\ rbuf = <<>>
    /\ published = <<>>

TemplateIdle ==
    /\ tpc = "idle"
    /\ generator = ""
    /\ use_s3 = FALSE
    /\ is_docker = FALSE
    /\ template_env = <<>>
    /\ on_disk = {}
    /\ template_bucket = FALSE
    /\ objects = {}
    /\ template_path = <<>>
    /\ raised = ""
    /\ touched = {}

ListingIdle ==
    /\ blobs = {}
    /\ by_owner = {}
    /\ admin_all = {}

QuestionnaireIdle ==
    /\ response_files = <<>>
    /\ locked_answers = <<>>
    /\ http_status = ""

(***************************************************************************)
(* Python str operations on character sequences                            *)
(***************************************************************************)

\* s[i:i+len(p)] == p
MatchAt(s, p, i) ==
    /\ i + Len(p) - 1 <= Len(s)
    /\ \A k \in 1..Len(p) : s[i + k - 1] = p[k]

\* p in s
Contains(s, p) == \E i \in 1..(Len(s) - Len(p) + 1) : MatchAt(s, p, i)

\* s.startswith(p)
StartsWith(s, p) == MatchAt(s, p, 1)

\* s.endswith(p)
EndsWith(s, p) == Len(p) <= Len(s) /\ MatchAt(s, p, Len(s) - Len(p) + 1)

RECURSIVE ReplaceFrom(_, _, _, _)
ReplaceFrom(s, old, new, i) ==
    IF i > Len(s) THEN <<>>
    ELSE IF MatchAt(s, old, i)
         THEN new \o ReplaceFrom(s, old, new, i + Len(old))
         ELSE <<s[i]>> \o ReplaceFrom(s, old, new, i + 1)

\* s.replace(old, new) for a non-empty old: leftmost non-overlapping occurrences
StrReplace(s, old, new) == ReplaceFrom(s, old, new, 1)

RECURSIVE Concat(_)
Concat(ss) == IF ss = <<>> THEN <<>> ELSE Head(ss) \o Concat(Tail(ss))

(***************************************************************************)
(* The placeholder map of generate_service_description                     *)
(***************************************************************************)

M_ENTER_UPPER ==
    <<"E","N","T","E","R"," ","S","E","R","V","I","C","E"," ","N","A","M","E"," ","H","E","R","E">>
M_Enter_Title ==
    <<"E","n","t","e","r"," ","S","e","r","v","i","c","e"," ","N","a","m","e"," ","H","e","r","e">>
M_enter_lower ==
    <<"e","n","t","e","r"," ","s","e","r","v","i","c","e"," ","n","a","m","e"," ","h","e","r","e">>
M_Add_Title ==
    <<"A","d","d"," ","T","i","t","l","e">>
M_SERVICE_NAME ==
    <<"{","{","S","E","R","V","I","C","E","_","N","A","M","E","}","}">>

\* the markers, in the insertion order of the dict literal
Markers == <<M_ENTER_UPPER, M_Enter_Title, M_enter_lower, M_Add_Title, M_SERVICE_NAME>>

\* the mapping passed to both passes: every marker maps to the title
PlaceholderMap(t) == [k \in 1..Len(Markers) |-> <<Markers[k], t>>]

RECURSIVE ApplyMappingFrom(_, _, _)
ApplyMappingFrom(txt, mapping, k) ==
    IF k > Len(mapping) THEN txt
    ELSE ApplyMappingFrom(
             IF Contains(txt, mapping[k][1])
             THEN StrReplace(txt, mapping[k][1], mapping[k][2])
             ELSE txt,
             mapping, k + 1)

MutApplyMappingOnce(txt, mapping) ==
    IF Len(mapping) = 0 THEN txt
    ELSE IF Contains(txt, mapping[1][1])
         THEN StrReplace(txt, mapping[1][1], mapping[1][2])
         ELSE txt

\* for old, new in mapping.items(): if old in text: text = text.replace(old, new)
ApplyMapping(txt, mapping) == ApplyMappingFrom(txt, mapping, 1)

\* _replace_text_in_all_wt: every w:t and a:t node with a non-empty text
ReplaceTextInAllWt(nodes, mapping) ==
    [i \in 1..Len(nodes) |->
        IF nodes[i].text # <<>>
        THEN [nodes[i] EXCEPT !.text = ApplyMapping(nodes[i].text, mapping)]
        ELSE nodes[i]]

\* _replace_text_in_all_wt as the document element runs it: the loop calls
\* doc._element.xpath(xpath, namespaces=ns) inside try/except Exception: pass;
\* where the element class takes no namespaces keyword the call raises before
\* any node is visited and the tree is left as it was
ReplaceTextInAllWtOf(nodes, mapping, xpathRaises) ==
    IF xpathRaises THEN nodes ELSE ReplaceTextInAllWt(nodes, mapping)

MutReplaceInSavedDocxEveryPart(parts, mapping) ==
    [i \in 1..Len(parts) |->
        IF parts[i].utf8
        THEN [parts[i] EXCEPT !.data = ApplyMapping(parts[i].data, mapping)]
        ELSE parts[i]]

S_word ==
    <<"w","o","r","d","/">>
S_xml ==
    <<".","x","m","l">>

\* _replace_in_saved_docx: every zip member named word/*.xml that decodes as UTF-8
ReplaceInSavedDocx(parts, mapping) ==
    [i \in 1..Len(parts) |->
        IF StartsWith(parts[i].name, S_word) /\ EndsWith(parts[i].name, S_xml)
           /\ parts[i].utf8
        THEN [parts[i] EXCEPT !.data = ApplyMapping(parts[i].data, mapping)]
        ELSE parts[i]]

(***************************************************************************)
(* The package: parts, serialization, the settings part                    *)
(***************************************************************************)

N_document ==
    <<"w","o","r","d","/","d","o","c","u","m","e","n","t",".","x","m","l">>
N_header ==
    <<"w","o","r","d","/","h","e","a","d","e","r","1",".","x","m","l">>
N_footer ==
    <<"w","o","r","d","/","f","o","o","t","e","r","1",".","x","m","l">>
N_styles ==
    <<"w","o","r","d","/","s","t","y","l","e","s",".","x","m","l">>
N_settings ==
    <<"w","o","r","d","/","s","e","t","t","i","n","g","s",".","x","m","l">>
N_media ==
    <<"w","o","r","d","/","m","e","d","i","a","/","i","m","a","g","e","1",".","p","n","g">>
N_core ==
    <<"d","o","c","P","r","o","p","s","/","c","o","r","e",".","x","m","l">>

X_amp ==
    <<"&","a","m","p",";">>
X_lt ==
    <<"&","l","t",";">>
X_gt ==
    <<"&","g","t",";">>

\* the serializer's escaping of character data
RECURSIVE XmlEscape(_)
XmlEscape(s) ==
    IF s = <<>> THEN <<>>
    ELSE (CASE Head(s) = "&" -> X_amp
            [] Head(s) = "<" -> X_lt
            [] Head(s) = ">" -> X_gt
            [] OTHER -> <<Head(s)>>) \o XmlEscape(Tail(s))

\* the main document part as saved: each text node between its tags
RECURSIVE SerializeBody(_)
SerializeBody(nodes) ==
    IF nodes = <<>> THEN <<>>
    ELSE (IF Head(nodes).ns = "w" THEN <<"<w:t>">> ELSE <<"<a:t>">>)
         \o XmlEscape(Head(nodes).text)
         \o (IF Head(nodes).ns = "w" THEN <<"</w:t>">> ELSE <<"</a:t>">>)
         \o SerializeBody(Tail(nodes))

E_updateFieldsTrue == "<w:updateFields w:val=true/>"
E_updateFieldsFalse == "<w:updateFields w:val=false/>"
E_zoom == "<w:zoom/>"

IsUpdateFields(el) == el \in {E_updateFieldsTrue, E_updateFieldsFalse}

NotUpdateFields(el) == ~IsUpdateFields(el)

MutEnableKeepsOld(els) == els \o <<E_updateFieldsTrue>>

\* _enable_update_fields_on_open: drop every w:updateFields, append one set to true
EnableUpdateFieldsOnOpen(els) ==
    SelectSeq(els, NotUpdateFields) \o <<E_updateFieldsTrue>>

PartIndex(parts, name) == CHOOSE i \in 1..Len(parts) : parts[i].name = name

PartData(parts, name) == parts[PartIndex(parts, name)].data

\* doc.save: the document part and the settings part are written from the
\* in-memory objects, every other part as it was loaded
SavePackage(template, nodes, els) ==
    [i \in 1..Len(template) |->
        IF template[i].name = N_document
        THEN [template[i] EXCEPT !.data = SerializeBody(nodes)]
        ELSE IF template[i].name = N_settings
        THEN [template[i] EXCEPT !.data = els]
        ELSE template[i]]

(***************************************************************************)
(* Inputs of the substitution machine                                      *)
(***************************************************************************)

MaxTextNodes == 2

T_Add ==
    <<"A","d","d">>
T_Cloud ==
    <<"C","l","o","u","d">>
T_KeyServiceFeaturesPlus ==
    <<"K","e","y"," ","S","e","r","v","i","c","e"," ","F","e","a","t","u","r","e","s"," ","P","l","u","s">>
T_ServiceDefinitionKit ==
    <<"S","e","r","v","i","c","e"," ","D","e","f","i","n","i","t","i","o","n"," ","K","i","t">>
T_AboutPACloud ==
    <<"A","b","o","u","t"," ","P","A"," ","C","l","o","u","d">>
T_AddTitleX ==
    <<"A","d","d"," ","T","i","t","l","e"," ","X">>
T_RnD ==
    <<"R","&","D">>
T_SERVICE_NAME ==
    <<"S","E","R","V","I","C","E"," ","N","A","M","E">>

\* titles the request model accepts (1..100 characters, at most 10 words)
Titles == {T_Add, T_Cloud, T_AddTitleX, T_RnD, T_SERVICE_NAME}

D_Backup ==
    <<"B","a","c","k","u","p">>

Descriptions == {D_Backup, M_Enter_Title}

X_Hello ==
    <<"H","e","l","l","o">>
X_AddSp ==
    <<"A","d","d"," ">>
X_Title ==
    <<"T","i","t","l","e">>
X_SNTitle ==
    <<"{","{","S","E","R","V","I","C","E","_","N","A","M","E","}","}"," ","T","i","t","l","e">>
X_ENTER_SN_HERE ==
    <<"E","N","T","E","R"," ","{","{","S","E","R","V","I","C","E","_","N","A","M","E","}","}"," ","H","E","R","E">>

\* text nodes a template's main part may hold: plain text, whole markers, a
\* marker split over two runs, a drawing text box, an empty node
TemplateNodes ==
    {[ns |-> "w", text |-> x] : x \in {X_Hello, M_Add_Title, X_AddSp, X_Title, X_SNTitle, <<>>}}
    \cup {[ns |-> "a", text |-> M_ENTER_UPPER]}

TemplateTrees ==
    UNION {[1..n -> TemplateNodes] : n \in 1..MaxTextNodes}

StyleNamedAddTitle == <<"<w:style w:name='">> \o M_Add_Title \o <<"'/>">>

StyleNamedNormal == <<"<w:style w:name='Normal'/>">>

\* the other parts of a template: <<header text, styles part, settings elements>>
TemplateVariants ==
    { <<X_Hello, StyleNamedNormal, <<E_zoom>> >>,
      <<M_SERVICE_NAME, StyleNamedAddTitle, <<E_updateFieldsFalse, E_zoom>> >>,
      <<X_SNTitle, StyleNamedNormal, <<E_updateFieldsFalse, E_zoom>> >>,
      <<X_ENTER_SN_HERE, StyleNamedAddTitle, <<E_zoom>> >> }

\* a template package around the given main-part text nodes
TemplatePackage(nodes, header, styles, els) ==
    << [name |-> N_document, data |-> SerializeBody(nodes), utf8 |-> TRUE],
       [name |-> N_header,   data |-> <<"<w:t>">> \o header \o <<"</w:t>">>, utf8 |-> TRUE],
       [name |-> N_footer,   data |-> <<"FF", "FE", "A", "00", "d", "00", "d", "00">>, utf8 |-> FALSE],
       [name |-> N_styles,   data |-> styles, utf8 |-> TRUE],
       [name |-> N_settings, data |-> els, utf8 |-> TRUE],
       [name |-> N_media,    data |-> <<"89", "PNG">> \o M_Add_Title, utf8 |-> FALSE],
       [name |-> N_core,     data |-> <<"<dc:title>">> \o M_Add_Title \o <<"</dc:title>">>, utf8 |-> TRUE] >>

(***************************************************************************)
(* The document tree: block nodes of the body                              *)
(***************************************************************************)

H_ShortServiceDescription ==
    <<"S","h","o","r","t"," ","S","e","r","v","i","c","e"," ","D","e","s","c","r","i","p","t","i","o","n">>
H_KeyServiceFeatures ==
    <<"K","e","y"," ","S","e","r","v","i","c","e"," ","F","e","a","t","u","r","e","s">>
H_KeyServiceBenefits ==
    <<"K","e","y"," ","S","e","r","v","i","c","e"," ","B","e","n","e","f","i","t","s">>
H_ServiceDefinition ==
    <<"S","e","r","v","i","c","e"," ","D","e","f","i","n","i","t","i","o","n">>
X_Intro ==
    <<"I","n","t","r","o">>

\* the style names of the template that begin with "Heading"
HeadingStyles == {"Heading 1", "Heading 2", "Heading 3"}

\* p.style and p.style.name.startswith('Heading')
IsHeadingStyle(style) == style \in HeadingStyles

TextRun(t) == [kind |-> "text", text |-> t, bold |-> FALSE, italic |-> FALSE, color |-> "auto"]

Para(id, style, t) ==
    [id |-> id, tag |-> "p", style |-> style, runs |-> IF t = <<>> THEN <<>> ELSE <<TextRun(t)>>]

Tbl(id) == [id |-> id, tag |-> "tbl", style |-> "", runs |-> <<>>]

Sdt(id) == [id |-> id, tag |-> "sdt", style |-> "", runs |-> <<>>]

SectPr(id) == [id |-> id, tag |-> "sectPr", style |-> "", runs |-> <<>>]

RECURSIVE RunsText(_)
RunsText(runs) ==
    IF runs = <<>> THEN <<>>
    ELSE (CASE Head(runs).kind = "text" -> Head(runs).text
            [] Head(runs).kind \in {"break", "pagebreak"} -> <<"\n">>
            [] OTHER -> <<>>) \o RunsText(Tail(runs))

\* p.text
ParaText(node) == RunsText(node.runs)

IsHeadingPara(node) == node.tag = "p" /\ IsHeadingStyle(node.style)

RECURSIVE PositionsFrom(_, _)
PositionsFrom(b, k) ==
    IF k > Len(b) THEN <<>>
    ELSE (IF b[k].tag = "p" THEN <<k>> ELSE <<>>) \o PositionsFrom(b, k + 1)

\* doc.paragraphs: the positions in the body of its w:p children
ParagraphPositions(b) == PositionsFrom(b, 1)

RemoveAt(b, k) == SubSeq(b, 1, k - 1) \o SubSeq(b, k + 1, Len(b))

RECURSIVE FindHeadingIter(_, _, _, _)
FindHeadingIter(b, pp, headingText, i) ==
    IF i > Len(pp) THEN -1
    ELSE IF IsHeadingStyle(b[pp[i]].style) /\ Contains(ParaText(b[pp[i]]), headingText)
         THEN i - 1
         ELSE FindHeadingIter(b, pp, headingText, i + 1)

\* _find_heading_index: index in doc.paragraphs (from 0) of the first
\* Heading-styled paragraph whose text contains heading_text; -1 for None
FindHeadingIndex(b, headingText) ==
    FindHeadingIter(b, ParagraphPositions(b), headingText, 1)

RECURSIVE MutRemoveWalkStopsAtTable(_, _, _)
MutRemoveWalkStopsAtTable(b, k, first) ==
    IF k > Len(b) THEN b
    ELSE IF ~first /\ (IsHeadingPara(b[k]) \/ b[k].tag = "tbl")
         THEN b
         ELSE MutRemoveWalkStopsAtTable(RemoveAt(b, k), k, FALSE)

\* the loop of _remove_heading_block: el is the node at position k (its
\* successor takes that position when it is removed); first is "el is heading_p"
RECURSIVE RemoveWalk(_, _, _)
RemoveWalk(b, k, first) ==
    IF k > Len(b) THEN b
    ELSE IF b[k].tag = "p" /\ ~first /\ IsHeadingStyle(b[k].style)
         THEN b
         ELSE RemoveWalk(RemoveAt(b, k), k, FALSE)

\* _remove_heading_block(doc, heading_idx)
RemoveHeadingBlock(b, headingIdx) ==
    RemoveWalk(b, ParagraphPositions(b)[headingIdx + 1], TRUE)

RECURSIVE RemoveSectionsFrom(_, _, _)
RemoveSectionsFrom(b, headings, k) ==
    IF k > Len(headings) THEN b
    ELSE LET idx == FindHeadingIndex(b, headings[k])
         IN  RemoveSectionsFrom(IF idx # -1 THEN RemoveHeadingBlock(b, idx) ELSE b,
                                headings, k + 1)

\* _remove_sections(doc, headings)
RemoveSections(b, headings) == RemoveSectionsFrom(b, headings, 1)

\* the headings generate_service_description clears
TargetSections ==
    <<H_ShortServiceDescription, H_KeyServiceFeatures, H_KeyServiceBenefits, H_ServiceDefinition>>

(***************************************************************************)
(* The content composer                                                    *)
(*                                                                         *)
(* A composer state st is [b, n, cur]: the body, the id the next new node  *)
(* gets, and the id of the paragraph last produced (0 for None).           *)
(***************************************************************************)

ListCap == 10

Digits == <<"0","1","2","3","4","5","6","7","8","9">>

\* str(n) for n >= 0
RECURSIVE IntToStr(_)
IntToStr(n) ==
    IF n < 10 THEN <<Digits[n + 1]>>
    ELSE IntToStr(n \div 10) \o <<Digits[(n % 10) + 1]>>

S_DotSpace ==
    <<"."," ">>
S_ImageOpen ==
    <<"[","i","m","a","g","e",":"," ">>
S_ImageClose ==
    <<"]">>

Whitespace == {" ", "\n", "\t"}

\* s.strip()
RECURSIVE Strip(_)
Strip(s) ==
    IF s = <<>> THEN s
    ELSE IF Head(s) \in Whitespace THEN Strip(Tail(s))
    ELSE IF s[Len(s)] \in Whitespace THEN Strip(SubSeq(s, 1, Len(s) - 1))
    ELSE s

Run(kind, text, bold, italic, color) ==
    [kind |-> kind, text |-> text, bold |-> bold, italic |-> italic, color |-> color]

\* a paragraph created without a style has the default paragraph style
NewPara(id, style, t) == Para(id, IF style = "" THEN "Normal" ELSE style, t)

PosOfId(b, id) == CHOOSE k \in 1..Len(b) : b[k].id = id

HasId(b, id) == \E k \in 1..Len(b) : b[k].id = id

InsertAt(b, k, node) == SubSeq(b, 1, k) \o <<node>> \o SubSeq(b, k + 1, Len(b))

\* _insert_paragraph_after(paragraph, text, style_name)
InsertParagraphAfter(st, afterId, text, style) ==
    [b   |-> InsertAt(st.b, PosOfId(st.b, afterId), NewPara(st.n, style, text)),
     n   |-> st.n + 1,
     cur |-> st.n]

\* doc.add_paragraph(text, style): before the section properties, else at the end
AddParagraph(st, text, style) ==
    LET sect == {k \in 1..Len(st.b) : st.b[k].tag = "sectPr"}
        at   == IF sect = {} THEN Len(st.b)
                ELSE (CHOOSE k \in sect : \A j \in sect : k <= j) - 1
    IN  [b   |-> InsertAt(st.b, at, NewPara(st.n, style, text)),
         n   |-> st.n + 1,
         cur |-> st.n]

\* paragraph.add_run(...) on the paragraph with the given id
AppendRun(st, id, run) ==
    [st EXCEPT !.b[PosOfId(st.b, id)].runs = @ \o <<run>>]

\* add_para of _insert_full_content_block
AddPara(st, text, style) ==
    IF st.cur # 0 THEN InsertParagraphAfter(st, st.cur, text, style)
    ELSE AddParagraph(st, text, style)

\* the paragraph the loop of _insert_numbered_list_block makes for the item
\* at idx of enumerate(items, start=1): a red bold number, then the item
NumberedItem(id, idx, item) ==
    [id |-> id, tag |-> "p", style |-> "Normal",
     runs |-> << Run("text", IntToStr(idx) \o S_DotSpace, TRUE, FALSE, "C00000"),
                 Run("text", item, FALSE, FALSE, "000000") >>]

\* _insert_numbered_list_block(doc, after_para, items): the first paragraph
\* goes after after_para (or where doc.add_paragraph puts it), each further
\* one after the one before; the last one is returned
InsertNumberedListBlock(st, items) ==
    IF items = <<>> THEN st
    ELSE LET first == IF st.cur # 0 THEN InsertParagraphAfter(st, st.cur, <<>>, "")
                      ELSE AddParagraph(st, <<>>, "")
             at    == PosOfId(first.b, first.cur)
             paras == [k \in 1..Len(items) |-> NumberedItem(st.n + k - 1, k, items[k])]
         IN  [b   |-> SubSeq(first.b, 1, at - 1) \o paras
                      \o SubSeq(first.b, at + 1, Len(first.b)),
              n   |-> st.n + Len(items),
              cur |-> st.n + Len(items) - 1]

MutFirstTenUncapped(items) == items

\* items[:10]
FirstTen(items) == SubSeq(items, 1, IF Len(items) < ListCap THEN Len(items) ELSE ListCap)

(***************************************************************************)
(* The HTML renderer.  The input is the parse tree BeautifulSoup gives:    *)
(* a node is [name, text, src, fetch, kids]; name "#text" is a string.     *)
(***************************************************************************)

HText(t) == [name |-> "#text", text |-> t, src |-> <<>>, fetch |-> "", kids |-> <<>>]

HTag(name, kids) == [name |-> name, text |-> <<>>, src |-> <<>>, fetch |-> "", kids |-> kids]

\* an img element; fetch is what fetching and decoding its source does
HImg(src, fetch) == [name |-> "img", text |-> <<>>, src |-> src, fetch |-> fetch, kids |-> <<>>]

RECURSIVE GetText(_)
RECURSIVE KidsText(_)
\* node.get_text()
GetText(node) == IF node.name = "#text" THEN node.text ELSE KidsText(node.kids)

KidsText(kids) == IF kids = <<>> THEN <<>> ELSE GetText(Head(kids)) \o KidsText(Tail(kids))

\* one child of the element handed to add_paragraph_with_inlines; sp is
\* [st, p]: the composer state and the id of the paragraph being filled
RenderChild(sp, child) ==
    CASE child.name = "#text" ->
           [st |-> AppendRun(sp.st, sp.p, TextRun(child.text)), p |-> sp.p]
      [] child.name \in {"strong", "b"} ->
           [st |-> AppendRun(sp.st, sp.p, Run("text", GetText(child), TRUE, FALSE, "auto")),
            p |-> sp.p]
      [] child.name \in {"em", "i"} ->
           [st |-> AppendRun(sp.st, sp.p, Run("text", GetText(child), FALSE, TRUE, "auto")),
            p |-> sp.p]
      [] child.name = "br" ->
           [st |-> AppendRun(sp.st, sp.p, Run("break", <<>>, FALSE, FALSE, "auto")), p |-> sp.p]
      [] child.name = "img" ->
           IF child.src = <<>> THEN sp
           ELSE LET s1 == InsertParagraphAfter(sp.st, sp.p, <<>>, "")
                    placeholder == TextRun(S_ImageOpen \o child.src \o S_ImageClose)
                    empty == Run("text", <<>>, FALSE, FALSE, "auto")
                IN  [st |-> CASE child.fetch = "ok" ->
                                   AppendRun(s1, s1.cur,
                                             Run("picture", child.src, FALSE, FALSE, "auto"))
                              [] child.fetch = "fail" ->
                                   AppendRun(s1, s1.cur, placeholder)
                              [] OTHER ->
                                   \* add_picture raised after p_img.add_run()
                                   AppendRun(AppendRun(s1, s1.cur, empty), s1.cur, placeholder),
                     p |-> s1.cur]
      [] OTHER ->
           [st |-> AppendRun(sp.st, sp.p, TextRun(GetText(child))), p |-> sp.p]

RECURSIVE RenderChildren(_, _)
RenderChildren(sp, kids) ==
    IF kids = <<>> THEN sp ELSE RenderChildren(RenderChild(sp, Head(kids)), Tail(kids))

\* add_paragraph_with_inlines(text_or_node, style_name): the new paragraph
\* goes after after_para, the anchor handed to _insert_html
AddParagraphWithInlines(st, anchor, el, style) ==
    LET s1 == InsertParagraphAfter(st, anchor, <<>>, style)
    IN  IF el.name = "#text"
        THEN [st |-> AppendRun(s1, s1.cur, TextRun(el.text)), p |-> s1.cur]
        ELSE RenderChildren([st |-> s1, p |-> s1.cur], el.kids)

RECURSIVE RenderListItems(_, _, _)
RenderListItems(st, kids, style) ==
    IF kids = <<>> THEN st
    ELSE IF Head(kids).name = "li"
         THEN RenderListItems(InsertParagraphAfter(st, st.cur, GetText(Head(kids)), style),
                              Tail(kids), style)
         ELSE RenderListItems(st, Tail(kids), style)

\* one element of soup.contents; st.cur is `last`
RenderTopLevel(st, anchor, el) ==
    CASE el.name = "#text" ->
           IF Strip(el.text) # <<>>
           THEN LET r == AddParagraphWithInlines(st, anchor, el, "")
                IN  [r.st EXCEPT !.cur = r.p]
           ELSE st
      [] el.name = "h3" ->
           LET r == AddParagraphWithInlines(st, anchor, el, "Heading 3")
           IN  [r.st EXCEPT !.cur = r.p]
      [] el.name = "p" ->
           LET r == AddParagraphWithInlines(st, anchor, el, "Normal")
           IN  [r.st EXCEPT !.cur = r.p]
      [] el.name = "ul" -> RenderListItems(st, el.kids, "List Bullet")
      [] el.name = "ol" -> RenderListItems(st, el.kids, "List Number")
      [] el.name = "br" -> InsertParagraphAfter(st, st.cur, <<>>, "")
      [] OTHER ->
           LET r == AddParagraphWithInlines(st, anchor, el, "Normal")
           IN  [r.st EXCEPT !.cur = r.p]

RECURSIVE RenderContents(_, _, _)
RenderContents(st, anchor, els) ==
    IF els = <<>> THEN st
    ELSE RenderContents(RenderTopLevel(st, anchor, Head(els)), anchor, Tail(els))

\* _insert_html(doc, after_para, html): returns `last` as st.cur
InsertHtml(st, html) == RenderContents(st, st.cur, html)

\* one block of service_definition in _insert_full_content_block
InsertDefinitionBlock(st, block) ==
    LET s1 == IF block.subtitle # <<>> THEN AddPara(st, block.subtitle, "Heading 3") ELSE st
    IN  IF block.content # <<>>
        THEN LET s2 == InsertHtml(s1, block.content)
             IN  InsertParagraphAfter(s2, s2.cur, <<>>, "")
        ELSE s1

RECURSIVE InsertDefinitionBlocks(_, _)
InsertDefinitionBlocks(st, blocks) ==
    IF blocks = <<>> THEN st
    ELSE InsertDefinitionBlocks(InsertDefinitionBlock(st, Head(blocks)), Tail(blocks))

\* _insert_full_content_block(doc, after_para, service_title, description,
\* features, benefits, service_definition); st.cur is after_para
InsertFullContentBlock(st, in) ==
    LET s1 == AddPara(st, in.title, "Heading 1")
        s2 == AddPara(s1, H_ShortServiceDescription, "Heading 2")
        s3 == AddPara(s2, in.description, "Normal")
        s4 == AddPara(s3, H_KeyServiceFeatures, "Heading 2")
        s5 == InsertNumberedListBlock(s4, FirstTen(in.features))
        s6 == InsertParagraphAfter(s5, s5.cur, <<>>, "")
        s7 == AddPara(s6, H_KeyServiceBenefits, "Heading 2")
        s8 == InsertNumberedListBlock(s7, FirstTen(in.benefits))
        s9 == InsertParagraphAfter(s8, s8.cur, <<>>, "")
    IN  IF in.service_definition # <<>>
        THEN InsertDefinitionBlocks(AddPara(s9, H_ServiceDefinition, "Heading 2"),
                                    in.service_definition)
        ELSE s9

(***************************************************************************)
(* Title, About block and table of contents                                *)
(***************************************************************************)

H_AboutPA ==
    <<"A","b","o","u","t"," ","P","A">>
H_Contents ==
    <<"C","o","n","t","e","n","t","s">>
H_ContentsLower ==
    <<"c","o","n","t","e","n","t","s">>
H_TableOfContentsLower ==
    <<"t","a","b","l","e"," ","o","f"," ","c","o","n","t","e","n","t","s">>
M_ABOUT_PA_START ==
    <<"{","{","A","B","O","U","T","_","P","A","_","S","T","A","R","T","}","}">>
I_TOC ==
    <<"T","O","C"," ","\\","o"," ","\"","1","-","3","\""," ","\\","h"," ","\\","z"," ","\\","u">>
S_TOC ==
    <<"T","O","C">>

UpperChars == <<"A","B","C","D","E","F","G","H","I","J","K","L","M","N","O","P","Q","R","S","T","U","V","W","X","Y","Z">>
LowerChars == <<"a","b","c","d","e","f","g","h","i","j","k","l","m","n","o","p","q","r","s","t","u","v","w","x","y","z">>

LowerChar(c) ==
    IF \E k \in 1..Len(UpperChars) : UpperChars[k] = c
    THEN LowerChars[CHOOSE k \in 1..Len(UpperChars) : UpperChars[k] = c]
    ELSE c

\* s.lower()
Lower(s) == [k \in 1..Len(s) |-> LowerChar(s[k])]

\* doc.paragraphs[i], i from 0; the node's position in the body
ParagraphAt(b, i) == ParagraphPositions(b)[i + 1]

RECURSIVE FirstHeading1From(_, _, _)
FirstHeading1From(b, pp, i) ==
    IF i > Len(pp) THEN 0
    ELSE IF b[pp[i]].style = "Heading 1" THEN pp[i]
    ELSE FirstHeading1From(b, pp, i + 1)

\* the position of the first paragraph styled exactly 'Heading 1'; 0 if none
FirstHeading1(b) == FirstHeading1From(b, ParagraphPositions(b), 1)

\* the first marker of the placeholder list that occurs in the text; 0 if none
FirstPlaceholderIn(txt) ==
    IF \E k \in 1..Len(Markers) : Contains(txt, Markers[k])
    THEN CHOOSE k \in 1..Len(Markers) :
             Contains(txt, Markers[k]) /\ \A j \in 1..(k - 1) : ~Contains(txt, Markers[j])
    ELSE 0

\* the fallback of _replace_title: the first run of a paragraph, in document
\* order, whose text holds a placeholder: <<position, run index>>, <<0, 0>> if none
FirstPlaceholderRun(b) ==
    LET hits == {pr \in UNION {{<<k, r>> : r \in 1..Len(b[k].runs)} : k \in 1..Len(b)} :
                    /\ b[pr[1]].tag = "p"
                    /\ b[pr[1]].runs[pr[2]].kind = "text"
                    /\ FirstPlaceholderIn(b[pr[1]].runs[pr[2]].text) # 0}
    IN  IF hits = {} THEN <<0, 0>>
        ELSE CHOOSE h \in hits :
                 \A g \in hits : h[1] < g[1] \/ (h[1] = g[1] /\ h[2] <= g[2])

\* _replace_title(doc, new_title)
ReplaceTitle(b, newTitle) ==
    LET h == FirstHeading1(b)
    IN  IF h # 0
        THEN [b EXCEPT ![h].runs = <<Run("text", newTitle, TRUE, FALSE, "auto")>>]
        ELSE LET pr == FirstPlaceholderRun(b)
             IN  IF pr[1] = 0 THEN b
                 ELSE [b EXCEPT ![pr[1]].runs[pr[2]].text =
                          StrReplace(@, Markers[FirstPlaceholderIn(@)], newTitle)]

\* the first body child holding a text node that contains the marker; 0 if none
FirstMarkerPos(b, marker) ==
    LET hits == {k \in 1..Len(b) :
                    \E r \in 1..Len(b[k].runs) :
                        b[k].runs[r].kind = "text" /\ Contains(b[k].runs[r].text, marker)}
    IN  IF hits = {} THEN 0 ELSE CHOOSE k \in hits : \A j \in hits : k <= j

\* the first text run of the node that contains the marker
FirstMarkerRun(node, marker) ==
    CHOOSE r \in 1..Len(node.runs) :
        /\ node.runs[r].kind = "text" /\ Contains(node.runs[r].text, marker)
        /\ \A q \in 1..(r - 1) :
              ~(node.runs[q].kind = "text" /\ Contains(node.runs[q].text, marker))

\* _extract_block_by_marker(doc, marker): [b, block]
ExtractBlockByMarker(b, marker) ==
    LET k == FirstMarkerPos(b, marker)
    IN  IF k = 0 THEN [b |-> b, block |-> <<>>]
        ELSE LET r  == FirstMarkerRun(b[k], marker)
                 b1 == [b EXCEPT ![k].runs[r].text = StrReplace(@, marker, <<>>)]
             IN  [b |-> SubSeq(b1, 1, k - 1), block |-> SubSeq(b1, k, Len(b1))]

RECURSIVE FindHeadingElementFrom(_, _, _, _)
FindHeadingElementFrom(b, pp, headingText, i) ==
    IF i > Len(pp) THEN 0
    ELSE IF IsHeadingStyle(b[pp[i]].style)
            /\ Contains(Lower(ParaText(b[pp[i]])), Lower(headingText))
         THEN pp[i]
         ELSE FindHeadingElementFrom(b, pp, headingText, i + 1)

\* _find_heading_element: the position of the heading paragraph; 0 for None
FindHeadingElement(b, headingText) ==
    FindHeadingElementFrom(b, ParagraphPositions(b), headingText, 1)

\* the loop of _extract_heading_block: sb is [b, block], el is at position k
RECURSIVE ExtractWalk(_, _, _)
ExtractWalk(sb, k, first) ==
    IF k > Len(sb.b) THEN sb
    ELSE IF ~first /\ sb.b[k].tag = "p" /\ IsHeadingStyle(sb.b[k].style)
         THEN sb
         ELSE ExtractWalk([b |-> RemoveAt(sb.b, k), block |-> Append(sb.block, sb.b[k])],
                          k, FALSE)

\* _extract_heading_block(doc, heading_text): [b, block]
ExtractHeadingBlock(b, headingText) ==
    LET k == FindHeadingElement(b, headingText)
    IN  IF k = 0 THEN [b |-> b, block |-> <<>>]
        ELSE ExtractWalk([b |-> b, block |-> <<>>], k, TRUE)

\* the loop of _clear_section_after_heading from position k
RECURSIVE ClearWalk(_, _)
ClearWalk(b, k) ==
    IF k > Len(b) THEN b
    ELSE IF b[k].tag = "p" /\ IsHeadingStyle(b[k].style) THEN b
    ELSE ClearWalk(RemoveAt(b, k), k)

\* _clear_section_after_heading(doc, heading_idx)
ClearSectionAfterHeading(b, headingIdx) == ClearWalk(b, ParagraphAt(b, headingIdx) + 1)

RECURSIVE ContentsHeadingFrom(_, _, _)
ContentsHeadingFrom(b, pp, i) ==
    IF i > Len(pp) THEN -1
    ELSE IF Lower(Strip(ParaText(b[pp[i]]))) \in {H_ContentsLower, H_TableOfContentsLower}
            /\ IsHeadingStyle(b[pp[i]].style)
         THEN i - 1
         ELSE ContentsHeadingFrom(b, pp, i + 1)

\* the index in doc.paragraphs of the 'Contents' / 'Table of Contents'
\* heading; -1 for None
ContentsHeadingIndex(b) == ContentsHeadingFrom(b, ParagraphPositions(b), 1)

HasTocInstr(node) ==
    \E r \in 1..Len(node.runs) :
        node.runs[r].kind = "instrText" /\ Contains(node.runs[r].text, S_TOC)

KeepsNoTocInstr(node) == ~(node.tag = "p" /\ HasTocInstr(node))

\* _remove_existing_toc: the paragraph around every instruction text that
\* holds 'TOC' is removed from its parent; the runs of a table or content
\* control stand for one paragraph inside it.  The search calls xpath with a
\* namespaces keyword on the document element; where the element class takes
\* no such keyword the call raises, the except clause passes and nothing is
\* removed (xpathRaises).
RemoveExistingToc(b, xpathRaises) ==
    IF xpathRaises THEN b
    ELSE LET kept == SelectSeq(b, KeepsNoTocInstr)
         IN  [k \in 1..Len(kept) |->
                 IF HasTocInstr(kept[k]) THEN [kept[k] EXCEPT !.runs = <<>>] ELSE kept[k]]

TocFieldRuns ==
    << Run("fldChar_begin", <<>>, FALSE, FALSE, "auto"),
       Run("instrText", I_TOC, FALSE, FALSE, "auto"),
       Run("fldChar_separate", <<>>, FALSE, FALSE, "auto"),
       Run("fldChar_end", <<>>, FALSE, FALSE, "auto") >>

RECURSIVE AppendRuns(_, _, _)
AppendRuns(st, id, runs) ==
    IF runs = <<>> THEN st ELSE AppendRuns(AppendRun(st, id, Head(runs)), id, Tail(runs))

\* _insert_toc_after_heading(doc, heading_idx): st.cur is the new paragraph
InsertTocAfterHeading(st, headingIdx) ==
    LET s1 == InsertParagraphAfter(st, st.b[ParagraphAt(st.b, headingIdx)].id, <<>>, "")
    IN  AppendRuns(s1, s1.cur, TocFieldRuns)

\* whether doc.paragraphs[heading_idx] raises IndexError
ParagraphIndexError(b, i) == i >= Len(ParagraphPositions(b))

\* _refresh_contents_section(doc): st.cur is the TOC paragraph, 0 for None;
\* st.cur = -1 when doc.paragraphs[heading_idx] raises after the removals
RefreshContentsSection(st, xpathRaises) ==
    LET idx == ContentsHeadingIndex(st.b)
    IN  IF idx = -1 THEN [st EXCEPT !.cur = 0]
        ELSE LET b1 == RemoveExistingToc(ClearSectionAfterHeading(st.b, idx), xpathRaises)
             IN  IF ParagraphIndexError(b1, idx) THEN [st EXCEPT !.b = b1, !.cur = -1]
                 ELSE InsertTocAfterHeading([st EXCEPT !.b = b1], idx)

HasBreak(node) ==
    \E r \in 1..Len(node.runs) : node.runs[r].kind \in {"break", "pagebreak"}

\* _ensure_toc_and_pagebreak(doc): st.cur is the paragraph returned.  The
\* search for a break calls xpath with a namespaces keyword on each run of
\* the paragraph; where that raises, the except clause passes and no break is
\* added.
EnsureTocAndPagebreak(st, xpathRaises) ==
    LET s1 == RefreshContentsSection(st, xpathRaises)
        pp == ParagraphPositions(s1.b)
    IN  IF s1.cur = -1 THEN s1
        ELSE IF s1.cur # 0
        THEN IF xpathRaises \/ HasBreak(s1.b[PosOfId(s1.b, s1.cur)]) THEN s1
             ELSE AppendRun(s1, s1.cur, Run("pagebreak", <<>>, FALSE, FALSE, "auto"))
        ELSE [s1 EXCEPT !.cur = IF pp = <<>> THEN 0 ELSE s1.b[pp[Len(pp)]].id]

\* _update_toc_field(doc)
UpdateTocField(st) ==
    LET idx == ContentsHeadingIndex(st.b)
        pp  == ParagraphPositions(st.b)
    IN  IF idx = -1 \/ idx + 1 >= Len(pp) THEN st
        ELSE LET headId == st.b[pp[idx + 1]].id
                 b1 == RemoveAt(st.b, pp[idx + 2])
                 s1 == InsertParagraphAfter([st EXCEPT !.b = b1], headId, <<>>, "")
             IN  AppendRuns(s1, s1.cur, TocFieldRuns)

\* the re-append of the About block: three blank paragraphs after the tail
\* paragraph, the second with a page break, then the block at the end
ReappendAbout(st, block, lastPara) ==
    LET pp   == ParagraphPositions(st.b)
        tail == IF lastPara # 0 THEN lastPara
                ELSE IF pp = <<>> THEN 0 ELSE st.b[pp[Len(pp)]].id
        s3   == IF tail = 0 THEN st
                ELSE LET s1 == InsertParagraphAfter(st, tail, <<>>, "")
                         s2 == InsertParagraphAfter(s1, s1.cur, <<>>, "")
                         sb == AppendRun(s2, s2.cur,
                                         Run("pagebreak", <<>>, FALSE, FALSE, "auto"))
                     IN  InsertParagraphAfter(sb, s2.cur, <<>>, "")
    IN  [s3 EXCEPT !.b = @ \o block]

(***************************************************************************)
(* The block machine: heading blocks of arbitrary bodies                   *)
(***************************************************************************)

MaxBody == 4

\* the kinds of node a body holds before its section properties
BlockKinds == {"features", "definition", "intro", "normal", "tbl", "sdt"}

NodeOfKind(kind, id) ==
    CASE kind = "features"   -> Para(id, "Heading 2", H_KeyServiceFeatures)
      [] kind = "definition" -> Para(id, "Heading 1", H_ServiceDefinition)
      [] kind = "intro"      -> Para(id, "Heading 1", X_Intro)
      [] kind = "normal"     -> Para(id, "Normal", H_KeyServiceFeatures)
      [] kind = "tbl"        -> Tbl(id)
      [] kind = "sdt"        -> Sdt(id)

\* a body: up to MaxBody nodes, then the section properties
BodyOfKinds(kinds) ==
    [i \in 1..(Len(kinds) + 1) |->
        IF i <= Len(kinds) THEN NodeOfKind(kinds[i], i) ELSE SectPr(i)]

Bodies == {BodyOfKinds(kinds) : kinds \in UNION {[1..n -> BlockKinds] : n \in 1..MaxBody}}

otherThanBlock == <<substVars, composeVars, keyVars, genVars, raceVars, tplVars, listVars, quVars>>

BlockInit ==
    /\ bpc = "template"
    /\ body \in Bodies
    /\ body0 = body
    /\ rmIdx = -1
    /\ SubstIdle
    /\ ComposeIdle
    /\ KeyIdle
    /\ GenIdle
    /\ RaceIdle
    /\ TemplateIdle
    /\ ListingIdle
    /\ QuestionnaireIdle

\* self._remove_heading_block(doc, idx) for the index of a heading paragraph
RemoveBlock ==
    /\ bpc = "template"
    /\ \E i \in 0..(Len(ParagraphPositions(body)) - 1) :
          /\ IsHeadingPara(body[ParagraphPositions(body)[i + 1]])
          /\ rmIdx' = i
          /\ body' = RemoveHeadingBlock(body, i)
    /\ bpc' = "removed"
    /\ UNCHANGED <<body0>>
    /\ UNCHANGED otherThanBlock

\* self._remove_sections(doc, [...])
RemoveTargetSections ==
    /\ bpc = "template"
    /\ body' = RemoveSections(body, TargetSections)
    /\ bpc' = "cleaned"
    /\ UNCHANGED <<body0, rmIdx>>
    /\ UNCHANGED otherThanBlock

BlockNext ==
    \/ RemoveBlock
    \/ RemoveTargetSections

SpecBlock == BlockInit /\ [][BlockNext]_vars

\* the position in body0 of the heading handed to _remove_heading_block
RemovedStart == ParagraphPositions(body0)[rmIdx + 1]

\* C5: _remove_heading_block(i) removes exactly the heading paragraph at i and
\* the following body siblings up to, not including, the next Heading-styled
\* paragraph (tables and other non-paragraph nodes do not end the range), and
\* every node outside that range stays, unchanged and in its original order.
C5_RemoveBlockExtent ==
    bpc = "removed" =>
        \E e \in (RemovedStart + 1)..(Len(body0) + 1) :
            /\ e <= Len(body0) => IsHeadingPara(body0[e])
            /\ \A k \in (RemovedStart + 1)..(e - 1) : ~IsHeadingPara(body0[k])
            /\ body = SubSeq(body0, 1, RemovedStart - 1) \o SubSeq(body0, e, Len(body0))

\* C5 witness: a block that held a table was removed, a later heading and the
\* nodes before the block stayed
C5_Witness ==
    /\ bpc = "removed"
    /\ RemovedStart > 1
    /\ \E k \in (RemovedStart + 1)..Len(body0) :
          /\ body0[k].tag = "tbl"
          /\ \A j \in 1..Len(body) : body[j].id # body0[k].id
          /\ \E e \in (k + 1)..Len(body0) :
                /\ IsHeadingPara(body0[e])
                /\ \E j \in 1..Len(body) : body[j] = body0[e]

(***************************************************************************)
(* The composition machine: generate_service_description from the loaded   *)
(* template to the tree handed to the placeholder passes                   *)
(***************************************************************************)

MaxItems == 11

H_Introduction ==
    <<"I","n","t","r","o","d","u","c","t","i","o","n">>
H_TableOfContents ==
    <<"T","a","b","l","e"," ","o","f"," ","C","o","n","t","e","n","t","s">>
X_AboutText ==
    <<"P","A"," ","i","s"," ","a"," ","c","o","n","s","u","l","t","a","n","c","y">>
X_OldToc ==
    <<"T","O","C"," ","\\","o"," ","\"","1","-","2","\"">>
X_Legacy ==
    <<"L","e","g","a","c","y"," ","t","e","x","t">>
S_Scope ==
    <<"S","c","o","p","e">>
S_Hello ==
    <<"H","e","l","l","o"," ">>
S_Bold ==
    <<"b","o","l","d">>
S_Item ==
    <<"i","t","e","m">>
S_Div ==
    <<"d","i","v"," ","t","e","x","t">>
S_Tail ==
    <<"t","a","i","l">>
U_Image ==
    <<"h","t","t","p",":","/","/","i","/","a",".","p","n","g">>
U_Inline ==
    <<"h","t","t","p",":","/","/","i","/","b",".","p","n","g">>
S_XyzText ==
    <<"h","e","l","l","o">>
S_Stray ==
    <<"s","t","r","a","y">>
S_Nested ==
    <<"n","e","s","t","e","d">>
U_Top ==
    <<"h","t","t","p","s",":","/","/","x","/","t",".","p","n","g">>
Cell_A ==
    <<"a","1">>
Cell_B ==
    <<"b","1">>
S_F ==
    <<"F">>
S_B ==
    <<"B">>

\* a paragraph whose runs are given
ParaOfRuns(id, style, runs) == [id |-> id, tag |-> "p", style |-> style, runs |-> runs]

OldTocRuns ==
    << Run("fldChar_begin", <<>>, FALSE, FALSE, "auto"),
       Run("instrText", X_OldToc, FALSE, FALSE, "auto"),
       Run("fldChar_end", <<>>, FALSE, FALSE, "auto") >>

\* node ids of a template are the positions of its nodes
Renumber(nodes) == [k \in 1..Len(nodes) |-> [nodes[k] EXCEPT !.id = k]]

\* the usual template: title, contents with a field, the four target
\* sections, the About block found by heading
TemplateStandard ==
    Renumber(<< Para(0, "Heading 1", M_Add_Title),
                Para(0, "Heading 1", H_Contents),
                ParaOfRuns(0, "Normal", OldTocRuns),
                Para(0, "Heading 2", H_ShortServiceDescription),
                Para(0, "Normal", X_Intro),
                Para(0, "Heading 2", H_KeyServiceFeatures),
                Para(0, "List Bullet", X_Legacy),
                Tbl(0),
                Para(0, "Heading 2", H_KeyServiceBenefits),
                Para(0, "List Bullet", X_Legacy),
                Para(0, "Heading 2", H_ServiceDefinition),
                Para(0, "Normal", X_Legacy),
                Para(0, "Heading 1", H_AboutPA),
                Para(0, "Normal", X_AboutText),
                SectPr(0) >>)

\* no heading for the title, no contents heading, the field inside a content
\* control, the About block found by marker
TemplateMarker ==
    Renumber(<< Para(0, "Title", M_ENTER_UPPER),
                [Sdt(0) EXCEPT !.runs = OldTocRuns],
                Para(0, "Heading 2", H_KeyServiceFeatures),
                Para(0, "Normal", X_Legacy),
                Para(0, "Heading 2", H_Introduction),
                Para(0, "Normal", X_Intro),
                Para(0, "Normal", M_ABOUT_PA_START),
                Para(0, "Heading 2", H_AboutPA),
                Para(0, "Normal", X_AboutText),
                SectPr(0) >>)

\* no paragraph at all
TemplateNoParagraph == Renumber(<< Tbl(0), SectPr(0) >>)

\* a field paragraph before the contents heading, which is the last paragraph
TemplateTocBeforeContents ==
    Renumber(<< Para(0, "Heading 1", M_Enter_Title),
                ParaOfRuns(0, "Normal", OldTocRuns),
                Para(0, "Heading 1", H_TableOfContents),
                SectPr(0) >>)

\* a contents heading followed by text, then a section that is kept
TemplateKeptSection ==
    Renumber(<< Para(0, "Heading 1", M_Add_Title),
                Para(0, "Heading 2", H_TableOfContents),
                Para(0, "Normal", X_Legacy),
                ParaOfRuns(0, "Normal", OldTocRuns),
                Para(0, "Heading 1", H_Introduction),
                Para(0, "Normal", X_Intro),
                Para(0, "Heading 2", H_KeyServiceBenefits),
                Tbl(0),
                Para(0, "Normal", X_Legacy) >>)

\* the About block in the middle: another heading follows it
TemplateAboutBeforeHeading ==
    Renumber(<< Para(0, "Heading 1", M_Add_Title),
                Para(0, "Heading 1", H_Contents),
                ParaOfRuns(0, "Normal", OldTocRuns),
                Para(0, "Heading 1", H_AboutPA),
                Para(0, "Normal", X_AboutText),
                Para(0, "Heading 1", H_Introduction),
                Para(0, "Normal", X_Intro),
                SectPr(0) >>)

ComposeTemplates ==
    {TemplateStandard, TemplateMarker, TemplateNoParagraph, TemplateTocBeforeContents,
     TemplateKeptSection, TemplateAboutBeforeHeading}

ItemsOfLen(prefix, n) == [k \in 1..n |-> prefix \o IntToStr(k)]

ItemCounts == {0, 2, ListCap, MaxItems}

\* a block with a subtitle and inline content: text, bold text and an image
\* that cannot be fetched
BlockInline ==
    [subtitle |-> S_Scope,
     content  |-> << HTag("p", << HText(S_Hello), HTag("strong", <<HText(S_Bold)>>),
                                  HImg(U_Inline, "fail") >>) >>,
     images   |-> <<>>,
     table    |-> <<>>]

\* a block without a subtitle, with a list, an unsupported tag and a string,
\* and with an image list and a table
BlockWithImagesAndTable ==
    [subtitle |-> <<>>,
     content  |-> << HTag("ul", << HTag("li", <<HText(S_Item)>>) >>),
                     HTag("div", <<HText(S_Div)>>),
                     HText(S_Tail) >>,
     images   |-> << U_Image >>,
     table    |-> << <<Cell_A, Cell_B>> >>]

\* a block whose content has a tag outside the grammar at top level, and a list
\* with a string and an unsupported tag beside its item
BlockUnsupported ==
    [subtitle |-> <<>>,
     content  |-> << HTag("xyz", <<HText(S_XyzText)>>),
                     HTag("ul", << HText(S_Stray),
                                   HTag("li", <<HText(S_Item)>>),
                                   HTag("div", <<HText(S_Nested)>>) >>) >>,
     images   |-> <<>>,
     table    |-> <<>>]

\* a block whose content is one top-level image that cannot be fetched
BlockTopImage ==
    [subtitle |-> <<>>,
     content  |-> << HImg(U_Top, "fail") >>,
     images   |-> <<>>,
     table    |-> <<>>]

ServiceDefinitions ==
    { <<>>, <<BlockInline>>, <<BlockInline, BlockWithImagesAndTable>>,
      <<BlockUnsupported, BlockTopImage>> }

\* titles; three of them contain the name of a section of the template
ComposeTitles ==
    {T_Cloud, T_Add, T_KeyServiceFeaturesPlus, T_ServiceDefinitionKit, T_AboutPACloud}

otherThanCompose == <<substVars, bodyVars, keyVars, genVars, raceVars, tplVars, listVars, quVars>>

\* doc = Document(str(template_path))
ComposeInit ==
    /\ cpc = "loaded"
    /\ tpl \in ComposeTemplates
    /\ doc = [b |-> tpl, n |-> Len(tpl) + 1, cur |-> 0]
    /\ \E t \in ComposeTitles, nf \in ItemCounts, nb \in ItemCounts \ {ListCap},
          sd \in ServiceDefinitions :
          inp = [title |-> t, description |-> D_Backup,
                 features |-> ItemsOfLen(S_F, nf), benefits |-> ItemsOfLen(S_B, nb),
                 service_definition |-> sd]
    /\ about_pa_block = <<>>
    /\ last_para = 0
    /\ SubstIdle
    /\ BodyIdle
    /\ KeyIdle
    /\ GenIdle
    /\ RaceIdle
    /\ TemplateIdle
    /\ ListingIdle
    /\ QuestionnaireIdle

\* self._replace_title(doc, title)
ReplaceTitleStep ==
    /\ cpc = "loaded"
    /\ doc' = [doc EXCEPT !.b = ReplaceTitle(doc.b, inp.title)]
    /\ cpc' = "titled"
    /\ UNCHANGED <<tpl, inp, about_pa_block, last_para>>
    /\ UNCHANGED otherThanCompose

\* self._remove_sections(doc, [...])
RemoveSectionsStep ==
    /\ cpc = "titled"
    /\ doc' = [doc EXCEPT !.b = RemoveSections(doc.b, TargetSections)]
    /\ cpc' = "cleaned"
    /\ UNCHANGED <<tpl, inp, about_pa_block, last_para>>
    /\ UNCHANGED otherThanCompose

\* about_pa_block = _extract_block_by_marker(...) or _extract_heading_block(...)
ExtractAboutStep ==
    /\ cpc = "cleaned"
    /\ LET byMarker  == ExtractBlockByMarker(doc.b, M_ABOUT_PA_START)
           byHeading == ExtractHeadingBlock(byMarker.b, H_AboutPA)
           r == IF byMarker.block # <<>> THEN byMarker ELSE byHeading
       IN  /\ doc' = [doc EXCEPT !.b = r.b]
           /\ about_pa_block' = r.block
    /\ cpc' = "extracted"
    /\ UNCHANGED <<tpl, inp, last_para>>
    /\ UNCHANGED otherThanCompose

\* after_toc_para = self._ensure_toc_and_pagebreak(doc); the IndexError of
\* _insert_toc_after_heading ends the call
EnsureTocStep ==
    /\ cpc = "extracted"
    /\ \E xpathRaises \in BOOLEAN :
          doc' = EnsureTocAndPagebreak(doc, xpathRaises)
    /\ cpc' = IF doc'.cur = -1 THEN "raised" ELSE "toc"
    /\ UNCHANGED <<tpl, inp, about_pa_block, last_para>>
    /\ UNCHANGED otherThanCompose

\* last_para = self._insert_full_content_block(...)
InsertContentStep ==
    /\ cpc = "toc"
    /\ doc' = InsertFullContentBlock(doc, inp)
    /\ last_para' = doc'.cur
    /\ cpc' = "composed"
    /\ UNCHANGED <<tpl, inp, about_pa_block>>
    /\ UNCHANGED otherThanCompose

\* if about_pa_block: ... body.append(el)
ReappendAboutStep ==
    /\ cpc = "composed"
    /\ doc' = IF about_pa_block # <<>> THEN ReappendAbout(doc, about_pa_block, last_para)
              ELSE doc
    /\ cpc' = "appended"
    /\ UNCHANGED <<tpl, inp, about_pa_block, last_para>>
    /\ UNCHANGED otherThanCompose

\* self._update_toc_field(doc)
UpdateTocStep ==
    /\ cpc = "appended"
    /\ doc' = UpdateTocField(doc)
    /\ cpc' = "built"
    /\ UNCHANGED <<tpl, inp, about_pa_block, last_para>>
    /\ UNCHANGED otherThanCompose

ComposeNext ==
    \/ ReplaceTitleStep
    \/ RemoveSectionsStep
    \/ ExtractAboutStep
    \/ EnsureTocStep
    \/ InsertContentStep
    \/ ReappendAboutStep
    \/ UpdateTocStep

SpecCompose == ComposeInit /\ [][ComposeNext]_vars

(***************************************************************************)
(* Claims about the composed tree                                          *)
(***************************************************************************)

\* the tree holds the content block
Composed == cpc \in {"composed", "appended", "built"}

\* the string is in the text of a run, or is the source of a picture
Appears(b, str) ==
    \E k \in 1..Len(b) : \E r \in 1..Len(b[k].runs) :
        /\ b[k].runs[r].kind \in {"text", "picture"}
        /\ Contains(b[k].runs[r].text, str)

RECURSIVE TextLeaves(_)
RECURSIVE KidsLeaves(_)
\* the strings of an HTML tree
TextLeaves(node) == IF node.name = "#text" THEN {node.text} ELSE KidsLeaves(node.kids)

KidsLeaves(kids) ==
    IF kids = <<>> THEN {} ELSE TextLeaves(Head(kids)) \cup KidsLeaves(Tail(kids))

\* the title, the description, the first ten features and benefits, and the
\* subtitle and content text of every block are in the tree
TextFieldsAppear ==
    /\ Appears(doc.b, inp.title)
    /\ Appears(doc.b, inp.description)
    /\ \A k \in 1..Len(FirstTen(inp.features)) : Appears(doc.b, inp.features[k])
    /\ \A k \in 1..Len(FirstTen(inp.benefits)) : Appears(doc.b, inp.benefits[k])
    /\ \A i \in 1..Len(inp.service_definition) :
          /\ Appears(doc.b, inp.service_definition[i].subtitle)
          /\ \A leaf \in KidsLeaves(inp.service_definition[i].content) :
                Appears(doc.b, Strip(leaf))

\* every entry of every images list and every cell of every table is in the tree
ImagesAndTablesAppear ==
    \A i \in 1..Len(inp.service_definition) :
        /\ \A j \in 1..Len(inp.service_definition[i].images) :
              Appears(doc.b, inp.service_definition[i].images[j])
        /\ \A r \in 1..Len(inp.service_definition[i].table) :
              \A c \in 1..Len(inp.service_definition[i].table[r]) :
                  Appears(doc.b, inp.service_definition[i].table[r][c])

\* C6: every caller-supplied field appears in the composed document: the
\* title, the description, each of the first 10 features and benefits, and for
\* every service_definition block its subtitle, its content text, each entry
\* of its images list and each cell of its table.
C6_NoSilentDataLoss ==
    Composed => (TextFieldsAppear /\ ImagesAndTablesAppear)

\* the position of the Heading 2 paragraph the composer made with this text
ComposedHeading(b, text) ==
    CHOOSE k \in 1..Len(b) :
        /\ b[k].id > Len(tpl)
        /\ b[k].tag = "p" /\ b[k].style = "Heading 2"
        /\ b[k].runs = <<TextRun(text)>>

\* the positions under the heading at h: up to the next Heading paragraph
Region(b, h) ==
    {k \in (h + 1)..Len(b) : \A j \in (h + 1)..k : ~IsHeadingPara(b[j])}

\* a paragraph that starts with a number run of the numbered list
IsItemParagraph(node) ==
    /\ node.tag = "p"
    /\ node.runs # <<>>
    /\ node.runs[1].kind = "text"
    /\ node.runs[1].bold
    /\ node.runs[1].color = "C00000"

Min(a, b) == IF a < b THEN a ELSE b

ListRegionOK(b, heading, items) ==
    LET h == ComposedHeading(b, heading)
        m == Min(Len(items), ListCap)
    IN  /\ \A k \in 1..m :
              /\ h + k \in Region(b, h)
              /\ b[h + k].tag = "p"
              /\ Len(b[h + k].runs) = 2
              /\ b[h + k].runs[1].kind = "text"
              /\ b[h + k].runs[1].text = IntToStr(k) \o S_DotSpace
              /\ b[h + k].runs[2].kind = "text"
              /\ b[h + k].runs[2].text = items[k]
        /\ {k \in Region(b, h) : IsItemParagraph(b[k])} = (h + 1)..(h + m)

Ids(nodes) == {nodes[k].id : k \in 1..Len(nodes)}

\* the template holds the About block: the marker in a text node, or a
\* Heading-styled paragraph with the heading text
TemplateHasAbout(b) ==
    FirstMarkerPos(b, M_ABOUT_PA_START) # 0 \/ FindHeadingElement(b, H_AboutPA) # 0

\* the body ends with the nodes of the block, in their order
BlockIsLast(b, block) ==
    /\ Len(block) > 0
    /\ Len(b) >= Len(block)
    /\ \A k \in 1..Len(block) : b[Len(b) - Len(block) + k].id = block[k].id

\* a paragraph made by the call (not of the template) that has a page break
IsInsertedPageBreak(node, template) ==
    /\ node.tag = "p"
    /\ node.id \notin Ids(template)
    /\ \E r \in 1..Len(node.runs) : node.runs[r].kind = "pagebreak"

\* a blank paragraph made by the call
IsInsertedBlank(node, template) ==
    node.tag = "p" /\ node.id \notin Ids(template) /\ node.runs = <<>>

\* the nodes right before position k are the paragraphs inserted for the
\* page break: the paragraph with the break, and the blank one after it
PageBreakRightBefore(b, k, template) ==
    /\ k > 2
    /\ IsInsertedBlank(b[k - 1], template)
    /\ IsInsertedPageBreak(b[k - 2], template)

\* C14: whenever the template contains the About block, after composition the
\* block's nodes come after every generated node and every remaining template
\* node of the body, and right before the block's first node are the
\* paragraphs carrying the page break inserted for it.
C14_ClosingBlockPlacement ==
    (cpc = "built" /\ TemplateHasAbout(tpl)) =>
        /\ BlockIsLast(doc.b, about_pa_block)
        /\ PageBreakRightBefore(doc.b, Len(doc.b) - Len(about_pa_block) + 1, tpl)

\* the positions of the body nodes that hold a TOC instruction text
TocPositions(b) == {k \in 1..Len(b) : HasTocInstr(b[k])}

\* the position in the body of the 'Contents' / 'Table of Contents' heading
ContentsHeadingPos(b) == ParagraphPositions(b)[ContentsHeadingIndex(b) + 1]

\* the instruction texts of the tree that hold 'TOC'
TocInstrCount(b) ==
    Cardinality({<<k, r>> \in UNION {{<<j, q>> : q \in 1..Len(b[j].runs)} : j \in 1..Len(b)} :
                    b[k].runs[r].kind = "instrText" /\ Contains(b[k].runs[r].text, S_TOC)})

\* exactly one TOC field, in the paragraph right after the contents heading,
\* made of the four runs
SingleFreshToc(b) ==
    /\ ContentsHeadingIndex(b) # -1
    /\ TocInstrCount(b) = 1
    /\ LET h == ContentsHeadingPos(b)
       IN  /\ h < Len(b)
           /\ b[h + 1].tag = "p"
           /\ [r \in 1..Len(b[h + 1].runs) |-> b[h + 1].runs[r].kind]
                  = [r \in 1..Len(TocFieldRuns) |-> TocFieldRuns[r].kind]
           /\ b[h + 1].runs[2].text = I_TOC

\* no node of the template still holds a TOC field
NoTemplateTocRemains(b, template) ==
    \A k \in TocPositions(b) : b[k].id \notin Ids(template)

\* C15: for every template that has a Contents / Table of Contents heading,
\* after all content is composed the tree holds exactly one TOC instruction
\* text, in the paragraph right after that heading as the four runs begin /
\* instruction / separate / end, and no TOC field of the template remains.
C15_SingleFreshTocField ==
    (cpc = "built" /\ ContentsHeadingIndex(tpl) # -1) =>
        /\ SingleFreshToc(doc.b)
        /\ NoTemplateTocRemains(doc.b, tpl)

(***************************************************************************)
(* Storage keys: app/azure/storage_paths.py                                *)
(***************************************************************************)

S_GCloud ==
    <<"G","C","l","o","u","d"," ">>
S_PAServices ==
    <<"P","A"," ","S","e","r","v","i","c","e","s">>
S_LotFolder ==
    <<"C","l","o","u","d"," ","S","u","p","p","o","r","t"," ","S","e","r","v","i","c","e","s"," ","L","O","T"," ">>
S_PA_GC ==
    <<"P","A"," ","G","C">>
S_draft ==
    <<"_","d","r","a","f","t">>
S_docx ==
    <<"d","o","c","x">>
S_pdf ==
    <<"p","d","f">>
S_dot_docx ==
    <<".","d","o","c","x">>
S_draft_docx ==
    <<"_","d","r","a","f","t",".","d","o","c","x">>
S_SERVICE_DESC ==
    <<"S","E","R","V","I","C","E"," ","D","E","S","C">>
S_PricingDoc ==
    <<"P","r","i","c","i","n","g"," ","D","o","c">>
S_PRICING_DOC ==
    <<"P","R","I","C","I","N","G"," ","D","O","C">>
V_14 ==
    <<"1","4">>
V_15 ==
    <<"1","5">>
L_2 ==
    <<"2">>
L_3 ==
    <<"3">>
N_A ==
    <<"A">>
N_CloudBackup ==
    <<"C","l","o","u","d"," ","B","a","c","k","u","p">>
N_RnDLab ==
    <<"R","&","D"," "," ","L","a","b">>
N_Slash ==
    <<"O","p","s","/","R","u","n">>
N_Dotted ==
    <<" ","v","1",".","2"," ">>
N_Amp ==
    <<"&">>

\* the characters the pattern \w matches
WordChars ==
    {UpperChars[k] : k \in 1..Len(UpperChars)} \cup {LowerChars[k] : k \in 1..Len(LowerChars)}
        \cup {Digits[k] : k \in 1..Len(Digits)} \cup {"_"}

\* the characters re.sub(r"[^\w\s\-]", "", ...) keeps
KeptInFolder(c) == c \in WordChars \/ c \in Whitespace \/ c = "-"

\* re.sub(r"\s+", " ", s)
RECURSIVE CollapseWhitespace(_)
CollapseWhitespace(s) ==
    IF s = <<>> THEN s
    ELSE IF Head(s) \in Whitespace
         THEN IF Len(s) > 1 /\ s[2] \in Whitespace THEN CollapseWhitespace(Tail(s))
              ELSE <<" ">> \o CollapseWhitespace(Tail(s))
         ELSE <<Head(s)>> \o CollapseWhitespace(Tail(s))

\* _normalise_service_folder(service_name)
NormaliseServiceFolder(service_name) ==
    LET cleaned   == Strip(SelectSeq(service_name, KeptInFolder))
        collapsed == CollapseWhitespace(cleaned)
    IN  [k \in 1..Len(collapsed) |-> IF collapsed[k] = " " THEN "_" ELSE collapsed[k]]

\* s.split('/')
RECURSIVE SplitSlash(_)
SplitSlash(s) ==
    IF \E k \in 1..Len(s) : s[k] = "/"
    THEN LET k == CHOOSE i \in 1..Len(s) : s[i] = "/" /\ \A j \in 1..(i - 1) : s[j] # "/"
         IN  <<SubSeq(s, 1, k - 1)>> \o SplitSlash(SubSeq(s, k + 1, Len(s)))
    ELSE <<s>>

RECURSIVE JoinSlash(_)
JoinSlash(parts) ==
    IF parts = <<>> THEN <<>>
    ELSE IF Len(parts) = 1 THEN parts[1]
    ELSE parts[1] \o <<"/">> \o JoinSlash(Tail(parts))

RECURSIVE FlattenParts(_)
FlattenParts(segments) ==
    IF segments = <<>> THEN <<>>
    ELSE SplitSlash(Head(segments)) \o FlattenParts(Tail(segments))

IsPathPart(part) == part # <<>> /\ part # <<".">>

\* str(PurePosixPath(*segments)) for segments of which none after the first
\* starts with '/': the parts between slashes, without the empty and the
\* '.' ones, joined by '/'
PurePosixPathStr(segments) ==
    LET parts == SelectSeq(FlattenParts(segments), IsPathPart)
    IN  IF parts = <<>> THEN <<".">> ELSE JoinSlash(parts)

MutDraftSuffixDropped(filename, draft) == filename

\* if draft: filename += "_draft"
WithDraftSuffix(filename, draft) == IF draft THEN filename \o S_draft ELSE filename

\* build_service_blob_key(service_name=..., doc_type=..., gcloud_version=...,
\* lot=..., extension=..., draft=...)
BuildServiceBlobKey(service_name, doc_type, gcloud_version, lot, extension, draft) ==
    LET service_folder == NormaliseServiceFolder(service_name)
        stem     == S_PA_GC \o gcloud_version \o <<" ">> \o doc_type \o <<" ">> \o service_name
        filename == WithDraftSuffix(stem, draft) \o <<".">> \o extension
    IN  PurePosixPathStr(<< S_GCloud \o gcloud_version,
                            S_PAServices,
                            S_LotFolder \o lot,
                            service_folder,
                            filename >>)

(***************************************************************************)
(* The key machine: build_service_blob_key applied to a tuple              *)
(***************************************************************************)

ServiceNames == {N_A, N_CloudBackup, N_RnDLab, N_Slash, N_Dotted, N_Amp}

DocTypes == {S_SERVICE_DESC, S_PRICING_DOC}

Versions == {V_14, V_15}

Lots == {L_2, L_3}

Extensions == {S_docx, S_pdf}

otherThanKey == <<substVars, bodyVars, composeVars, genVars, raceVars, tplVars, listVars, quVars>>

KeyInit ==
    /\ kpc = {}
    /\ \E sn \in ServiceNames, dt \in DocTypes, v \in Versions, l \in Lots, e \in Extensions :
          karg = [service_name |-> sn, doc_type |-> dt, gcloud_version |-> v, lot |-> l,
                  extension |-> e]
    /\ key_final = <<>>
    /\ key_draft = <<>>
    /\ key_again = <<>>
    /\ SubstIdle
    /\ BodyIdle
    /\ ComposeIdle
    /\ GenIdle
    /\ RaceIdle
    /\ TemplateIdle
    /\ ListingIdle
    /\ QuestionnaireIdle

KeyOf(a, draft) ==
    BuildServiceBlobKey(a.service_name, a.doc_type, a.gcloud_version, a.lot, a.extension, draft)

\* build_service_blob_key(..., draft=False)
BuildFinalKey ==
    /\ "final" \notin kpc
    /\ key_final' = KeyOf(karg, FALSE)
    /\ kpc' = kpc \cup {"final"}
    /\ UNCHANGED <<karg, key_draft, key_again>>
    /\ UNCHANGED otherThanKey

\* build_service_blob_key(..., draft=True)
BuildDraftKey ==
    /\ "draft" \notin kpc
    /\ key_draft' = KeyOf(karg, TRUE)
    /\ kpc' = kpc \cup {"draft"}
    /\ UNCHANGED <<karg, key_final, key_again>>
    /\ UNCHANGED otherThanKey

\* the same call once more
BuildFinalKeyAgain ==
    /\ "final" \in kpc
    /\ "again" \notin kpc
    /\ key_again' = KeyOf(karg, FALSE)
    /\ kpc' = kpc \cup {"again"}
    /\ UNCHANGED <<karg, key_final, key_draft>>
    /\ UNCHANGED otherThanKey

KeyNext ==
    \/ BuildFinalKey
    \/ BuildDraftKey
    \/ BuildFinalKeyAgain

SpecKey == KeyInit /\ [][KeyNext]_vars

\* the part of the key after its last '/'
LastSegment(key) == LET parts == SplitSlash(key) IN parts[Len(parts)]

S_PAServicesMid ==
    <<"/","P","A"," ","S","e","r","v","i","c","e","s","/","C","l","o","u","d"," ","S","u","p","p","o","r","t"," ","S","e","r","v","i","c","e","s"," ","L","O","T"," ">>
S_SpaceServiceDesc ==
    <<" ","S","E","R","V","I","C","E"," ","D","E","S","C"," ">>
S_SpacePricingDoc ==
    <<" ","P","r","i","c","i","n","g"," ","D","o","c"," ">>
F_Caller ==
    <<"G","C","l","o","u","d"," ","1","5","/","P","A"," ","S","e","r","v","i","c","e","s","/","C","l","o","u","d"," ","S","u","p","p","o","r","t"," ","S","e","r","v","i","c","e","s"," ","L","O","T"," ","3","/","C","l","o","u","d"," ","B","a","c","k","u","p","/">>
T_Title ==
    <<"C","l","o","u","d">>
S_dot_pdf ==
    <<".","p","d","f">>
S_generated ==
    <<"g","e","n","e","r","a","t","e","d","/">>
S_http ==
    <<"h","t","t","p">>
S_api ==
    <<"/","a","p","i","/">>
S_Download ==
    <<"/","a","p","i","/","v","1","/","t","e","m","p","l","a","t","e","s","/","s","e","r","v","i","c","e","-","d","e","s","c","r","i","p","t","i","o","n","/","d","o","w","n","l","o","a","d","/">>
S_https ==
    <<"h","t","t","p","s",":","/","/">>
S_old_docx ==
    <<" ","o","l","d",".","d","o","c","x">>

\* a dictionary entry: present with a value, or absent
Some(v) == [present |-> TRUE, value |-> v]

Absent == [present |-> FALSE, value |-> <<>>]

\* d.get(key, default)
Get(entry, default) == IF entry.present THEN entry.value ELSE default

\* self.output_dir and MOCK_BASE_PATH: directories, each one path part
OutputDir == <<"{output_dir}">>

MockBasePath == <<"{MOCK_BASE_PATH}">>

\* a folder_path that is a str
StrFolder(s) == [kind |-> "str", s |-> s]

\* Path(s)
PathFolder(s) == [kind |-> "path", s |-> PurePosixPathStr(<<s>>)]

\* f"GCloud {gcloud_version}/PA Services/Cloud Support Services LOT {lot}/{service_name}/"
FolderPrefix(gcloud_version, lot, service_name) ==
    S_GCloud \o gcloud_version \o S_PAServicesMid \o lot \o <<"/">> \o service_name \o <<"/">>

\* the last non-empty part of folder_path.rstrip('/').split('/'); the
\* default when there is none
LastFolderPart(prefix, default) ==
    LET parts == SelectSeq(SplitSlash(prefix), LAMBDA part : part # <<>>)
    IN  IF parts = <<>> THEN default ELSE parts[Len(parts)]

\* folder_path.name
PathName(pathStr) == LET parts == SplitSlash(pathStr) IN parts[Len(parts)]

\* the update_metadata branch: folder_path, gcloud_version, doc_type,
\* service_name, actual_folder_name
ResolveUpdate(be, r, exists) ==
    LET fp0  == IF r.folder_path.present THEN r.folder_path.value ELSE <<>>
        v    == Get(r.gcloud_version, V_14)
        dt   == Get(r.doc_type, S_SERVICE_DESC)
        sn   == Get(r.service_name, r.title)
        fp1  == IF fp0 = <<>> /\ be \in {"azure", "s3"}
                THEN FolderPrefix(v, Get(r.lot, L_2), sn)
                ELSE fp0
        folder == IF be = "local" /\ fp1 # <<>> THEN PathFolder(fp1) ELSE StrFolder(fp1)
        actual == IF be = "local" /\ fp1 # <<>>
                  THEN IF exists THEN PathName(folder.s) ELSE sn
                  ELSE IF be = "azure" /\ fp1 # <<>> THEN LastFolderPart(fp1, sn)
                  ELSE sn
    IN  [folder_path |-> folder, gcloud_version |-> v, doc_type |-> dt, service_name |-> sn,
         actual_folder_name |-> actual, lot |-> <<>>, word_filename |-> <<>>]

\* the new_proposal_metadata branch; on the local backend MOCK_BASE_PATH is
\* set and no other folder of the lot matches the service name
ResolveNew(be, r) ==
    LET sn  == Get(r.service_name, r.title)
        lot == Get(r.lot, L_2)
        v   == Get(r.gcloud_version, V_15)
        folder == IF be \in {"s3", "azure"} THEN StrFolder(FolderPrefix(v, lot, sn))
                  ELSE PathFolder(PurePosixPathStr(<< MockBasePath, S_GCloud \o v, S_PAServices,
                                                      S_LotFolder \o lot, sn >>))
    IN  [folder_path |-> folder, gcloud_version |-> v, doc_type |-> S_SERVICE_DESC,
         service_name |-> sn, actual_folder_name |-> sn, lot |-> lot,
         word_filename |-> <<>>]

\* word_filename, with the _draft suffix when saving as draft
WordFilename(l, draft) ==
    LET name == IF l.doc_type = S_SERVICE_DESC
                THEN S_PA_GC \o l.gcloud_version \o S_SpaceServiceDesc
                         \o l.actual_folder_name \o S_dot_docx
                ELSE S_PA_GC \o l.gcloud_version \o S_SpacePricingDoc
                         \o l.actual_folder_name \o S_dot_docx
    IN  IF draft THEN StrReplace(name, S_dot_docx, S_draft_docx) ELSE name

\* the locals after the output location and the file name are determined
Resolve(be, r, exists) ==
    LET l == IF r.meta = "update" THEN ResolveUpdate(be, r, exists) ELSE ResolveNew(be, r)
    IN  [l EXCEPT !.word_filename = WordFilename(l, r.save_as_draft)]

\* folder_path as the completing branch leaves it on the local backend
FolderForRemoval(folder) == IF folder.kind = "str" THEN PathFolder(folder.s) ELSE folder

\* folder_path.exists(): the current directory exists
FolderExists(folder, exists) == folder.s = <<".">> \/ exists

\* the file of a directory: the name after the directory and a slash
InFolder(path, folder) ==
    IF folder.s = <<".">> THEN ~Contains(path, <<"/">>)
    ELSE /\ StartsWith(path, folder.s \o <<"/">>)
         /\ ~Contains(SubSeq(path, Len(folder.s) + 2, Len(path)), <<"/">>)

\* folder_path / name
JoinPath(folder, name) == PurePosixPathStr(<<folder.s, name>>)

\* the files the completing branch unlinks: the draft, and the files that
\* match PA GC{v} SERVICE DESC {service_name}*.docx other than word_filename
StaleFiles(files, folder, l) ==
    LET draft_path == JoinPath(folder, StrReplace(l.word_filename, S_dot_docx, S_draft_docx))
        prefix == S_PA_GC \o l.gcloud_version \o S_SpaceServiceDesc \o l.service_name
    IN  {f \in files : f = draft_path}
        \cup (IF Contains(l.word_filename, S_SERVICE_DESC)
              THEN {f \in files :
                      /\ InFolder(f, folder)
                      /\ StartsWith(PathName(f), prefix)
                      /\ EndsWith(PathName(f), S_dot_docx)
                      /\ Len(PathName(f)) >= Len(prefix) + Len(S_dot_docx)
                      /\ PathName(f) # l.word_filename}
              ELSE {})

\* the folder the local backend saves to
LocalSaveFolder(folder) ==
    IF folder.kind = "str"
    THEN IF Strip(folder.s) = <<>> THEN [kind |-> "path", s |-> OutputDir]
         ELSE PathFolder(folder.s)
    ELSE folder

\* s3_key = f"{folder_path}{word_filename}"
S3Key(l) == l.folder_path.s \o l.word_filename

\* blob_key of the Azure upload
BlobKey(r, l) ==
    IF r.meta = "update"
    THEN S_GCloud \o l.gcloud_version \o S_PAServicesMid \o Get(r.lot, L_3) \o <<"/">>
             \o l.actual_folder_name \o <<"/">> \o l.word_filename
    ELSE S_GCloud \o l.gcloud_version \o S_PAServicesMid \o l.lot \o <<"/">>
             \o l.service_name \o <<"/">> \o l.word_filename

\* where the call writes the Word artifact in the storage backend
ArtifactKey(be, r, l) ==
    CASE be = "s3" -> S3Key(l)
      [] be = "azure" -> BlobKey(r, l)
      [] OTHER -> JoinPath(LocalSaveFolder(l.folder_path), l.word_filename)

\* the key a call with this metadata and this draft flag publishes to
PublishKey(be, r, exists, draft) ==
    LET rd == [r EXCEPT !.save_as_draft = draft]
        l  == Resolve(be, rd, exists)
        l2 == IF ~draft /\ be = "local"
              THEN [l EXCEPT !.folder_path = FolderForRemoval(l.folder_path)]
              ELSE l
    IN  ArtifactKey(be, rd, l2)

(***************************************************************************)
(* The generation machine: one call of generate_service_description with   *)
(* update_metadata or new_proposal_metadata, against a storage backend     *)
(***************************************************************************)

Backends == {"local", "s3", "azure"}

N_DocxInside ==
    <<"K","i","t",".","d","o","c","x"," ","T","o","o","l","s">>

GenServiceNames == {N_A, N_CloudBackup, N_DocxInside}

UpdateRequests ==
    {[meta |-> "update", title |-> T_Title, service_name |-> Some(sn),
      gcloud_version |-> Some(V_15), doc_type |-> dt, lot |-> lot, folder_path |-> fp,
      save_as_draft |-> d] :
        sn \in GenServiceNames, dt \in {Absent, Some(S_PRICING_DOC)},
        lot \in {Absent, Some(L_2), Some(L_3)}, fp \in {Absent, Some(F_Caller)},
        d \in BOOLEAN}

NewRequests ==
    {[meta |-> "new", title |-> T_Title, service_name |-> sn,
      gcloud_version |-> Some(V_15), doc_type |-> Absent, lot |-> lot, folder_path |-> Absent,
      save_as_draft |-> d] :
        sn \in {Absent, Some(N_CloudBackup)}, lot \in {Absent, Some(L_3)}, d \in BOOLEAN}

Requests == UpdateRequests \cup NewRequests

\* a final artifact of an earlier naming of the service, in the folder the
\* completing call works in: PA GC{v} SERVICE DESC {service_name} old.docx
PreviousKey(be, r, exists) ==
    LET rd == [r EXCEPT !.save_as_draft = FALSE]
        l  == Resolve(be, rd, exists)
        l2 == [l EXCEPT !.folder_path = FolderForRemoval(l.folder_path),
                        !.word_filename = S_PA_GC \o l.gcloud_version \o S_SpaceServiceDesc
                                              \o l.service_name \o S_old_docx]
    IN  ArtifactKey(be, rd, l2)

otherThanGen == <<substVars, bodyVars, composeVars, keyVars, raceVars, tplVars, listVars, quVars>>

GenInit ==
    /\ gpc = "start"
    /\ backend \in Backends
    /\ req \in Requests
    /\ folder_exists \in BOOLEAN
    /\ store0 \in SUBSET ({PublishKey(backend, req, folder_exists, TRUE),
                           PublishKey(backend, req, folder_exists, FALSE)}
                          \cup (IF backend = "local"
                                THEN {PreviousKey(backend, req, folder_exists)}
                                ELSE {}))
    /\ (backend # "local" \/ store0 # {}) => folder_exists
    /\ store = store0
    /\ loc = <<>>
    /\ partial = {}
    /\ write_failed = FALSE
    /\ outcome = "none"
    /\ delete_failed = FALSE
    /\ conv = "none"
    /\ result = <<>>
    /\ response = <<>>
    /\ SubstIdle
    /\ BodyIdle
    /\ ComposeIdle
    /\ KeyIdle
    /\ RaceIdle
    /\ TemplateIdle
    /\ ListingIdle
    /\ QuestionnaireIdle

\* "Determine output location and filename"
DetermineLocation ==
    /\ gpc = "start"
    /\ loc' = Resolve(backend, req, folder_exists)
    /\ gpc' = "named"
    /\ UNCHANGED <<backend, req, folder_exists, store, store0, partial, write_failed, outcome,
                   delete_failed, conv, result, response>>
    /\ UNCHANGED otherThanGen

\* the path of the draft the completing branch unlinks first
DraftPath(folder, l) == JoinPath(folder, StrReplace(l.word_filename, S_dot_docx, S_draft_docx))

\* the files already unlinked when the unlink of file f raises: the draft
\* goes first, the files of the glob follow in the order of the directory
UnlinkedBefore(stale, folder, l, f) ==
    IF f = DraftPath(folder, l) THEN {{}}
    ELSE {done \in SUBSET (stale \ {f}) : DraftPath(folder, l) \in stale
                                              => DraftPath(folder, l) \in done}

\* "Remove any existing _draft files when completing (only for local)":
\* draft_path.unlink() and existing_file.unlink() are not guarded, an OSError
\* of either leaves generate_service_description
RemoveStaleFiles ==
    /\ gpc = "named"
    /\ IF ~req.save_as_draft /\ backend = "local"
       THEN LET folder == FolderForRemoval(loc.folder_path)
                stale  == IF FolderExists(folder, folder_exists)
                          THEN StaleFiles(store, folder, loc)
                          ELSE {}
            IN  /\ loc' = [loc EXCEPT !.folder_path = folder]
                /\ \/ /\ store' = store \ stale
                      /\ gpc' = "cleared"
                      /\ UNCHANGED <<delete_failed, outcome>>
                   \/ \E f \in stale : \E done \in UnlinkedBefore(stale, folder, loc, f) :
                         /\ store' = store \ done
                         /\ delete_failed' = TRUE
                         /\ outcome' = "error"
                         /\ gpc' = "done"
       ELSE /\ gpc' = "cleared"
            /\ UNCHANGED <<loc, store, delete_failed, outcome>>
    /\ UNCHANGED <<backend, req, folder_exists, store0, partial, write_failed, conv, result,
                   response>>
    /\ UNCHANGED otherThanGen

\* doc.save(str(word_path)): on the local backend this writes the artifact at
\* its place; a write that fails raises and may leave a part of the file
SaveDocument ==
    /\ gpc = "cleared"
    /\ IF backend = "local"
       THEN \E fails \in BOOLEAN, leaves \in BOOLEAN :
               LET key == ArtifactKey(backend, req, loc)
               IN  IF fails
                   THEN /\ write_failed' = TRUE
                        /\ outcome' = "error"
                        /\ gpc' = "done"
                        /\ store' = IF leaves THEN store \cup {key} ELSE store
                        /\ partial' = IF leaves THEN partial \cup {key} ELSE partial
                   ELSE /\ store' = store \cup {key}
                        /\ gpc' = "converted"
                        /\ UNCHANGED <<partial, write_failed, outcome>>
       ELSE /\ gpc' = "saved"
            /\ UNCHANGED <<store, partial, write_failed, outcome>>
    /\ UNCHANGED <<backend, req, folder_exists, loc, store0, delete_failed, conv, result,
                   response>>
    /\ UNCHANGED otherThanGen

\* self.azure_blob_service.upload_file(word_path, blob_key) inside try/except:
\* a failure is logged and the call goes on
UploadToAzure ==
    /\ gpc = "saved"
    /\ backend = "azure"
    /\ \E fails \in BOOLEAN :
          IF fails
          THEN /\ write_failed' = TRUE
               /\ UNCHANGED store
          ELSE /\ store' = store \cup {ArtifactKey(backend, req, loc)}
               /\ UNCHANGED write_failed
    /\ gpc' = "uploaded"
    /\ UNCHANGED <<backend, req, folder_exists, loc, store0, partial, outcome, delete_failed,
                   conv, result, response>>
    /\ UNCHANGED otherThanGen

\* s3_client.upload_fileobj(f, word_bucket, word_s3_key): a failure raises
UploadToS3 ==
    /\ gpc = "saved"
    /\ backend = "s3"
    /\ \E fails \in BOOLEAN :
          IF fails
          THEN /\ write_failed' = TRUE
               /\ outcome' = "error"
               /\ gpc' = "done"
               /\ UNCHANGED store
          ELSE /\ store' = store \cup {ArtifactKey(backend, req, loc)}
               /\ gpc' = "uploaded"
               /\ UNCHANGED <<write_failed, outcome>>
    /\ UNCHANGED <<backend, req, folder_exists, loc, store0, partial, delete_failed, conv,
                   result, response>>
    /\ UNCHANGED otherThanGen

\* the outcomes of a converter call that is made
ConverterOutcomes == {"ok", "raises", "status", "reports"}

\* the Azure PDF converter Function App, called inside the try of the upload
\* when the upload went through, PDF_CONVERTER_FUNCTION_URL is set and the
\* call is not a draft; requests.post raising (a timeout included), a status
\* other than 200 and a body without 'success' all set pdf_blob_key to None
ConvertAzure ==
    /\ gpc = "uploaded"
    /\ backend = "azure"
    /\ LET blob_key == BlobKey(req, loc)
           pdf_key  == StrReplace(blob_key, S_dot_docx, S_dot_pdf)
       IN  IF write_failed
           THEN /\ loc' = [word_blob_key |-> Absent, pdf_blob_key |-> Absent] @@ loc
                /\ UNCHANGED <<conv, store>>
           ELSE \E url_set \in BOOLEAN :
                   IF url_set /\ ~req.save_as_draft
                   THEN \E c \in ConverterOutcomes :
                           /\ conv' = c
                           /\ loc' = [word_blob_key |-> Some(blob_key),
                                      pdf_blob_key |-> IF c = "ok" THEN Some(pdf_key)
                                                       ELSE Absent] @@ loc
                           /\ store' = IF c = "ok" THEN store \cup {pdf_key} ELSE store
                   ELSE /\ loc' = [word_blob_key |-> Some(blob_key),
                                   pdf_blob_key |-> Absent] @@ loc
                        /\ UNCHANGED <<conv, store>>
    /\ gpc' = "converted"
    /\ UNCHANGED <<backend, req, folder_exists, store0, partial, write_failed, outcome,
                   delete_failed, result, response>>
    /\ UNCHANGED otherThanGen

\* s3_client.generate_presigned_url and the pdf_url of the converter
PresignedUrl(key) == S_https \o key

\* the PDF converter Lambda, invoked when PDF_CONVERTER_FUNCTION_NAME is set;
\* an exception of the invocation and a payload without 'success' leave
\* pdf_url None
ConvertS3 ==
    /\ gpc = "uploaded"
    /\ backend = "s3"
    /\ LET pdf_s3_key == S_generated \o StrReplace(loc.word_filename, S_dot_docx, S_dot_pdf)
           word_url   == PresignedUrl(S3Key(loc))
       IN  \E fn_set \in BOOLEAN :
              IF fn_set
              THEN \E c \in ConverterOutcomes \ {"status"} :
                      /\ conv' = c
                      /\ loc' = [word_url |-> word_url, pdf_s3_key |-> pdf_s3_key,
                                 pdf_url |-> IF c = "ok" THEN Some(PresignedUrl(pdf_s3_key))
                                             ELSE Absent] @@ loc
                      /\ store' = IF c = "ok" THEN store \cup {pdf_s3_key} ELSE store
              ELSE /\ loc' = [word_url |-> word_url, pdf_s3_key |-> pdf_s3_key,
                              pdf_url |-> Absent] @@ loc
                   /\ UNCHANGED <<conv, store>>
    /\ gpc' = "converted"
    /\ UNCHANGED <<backend, req, folder_exists, store0, partial, write_failed, outcome,
                   delete_failed, result, response>>
    /\ UNCHANGED otherThanGen

\* a or b
Or(a, b) == IF a # <<>> THEN a ELSE b

\* the dict of the S3 return
ResultS3(l) ==
    [word_path |-> l.word_url, word_s3_key |-> Some(S3Key(l)), word_blob_key |-> Absent,
     pdf_path |-> Or(Get(l.pdf_url, <<>>), l.pdf_s3_key),
     pdf_s3_key |-> Some(l.pdf_s3_key), pdf_blob_key |-> Absent,
     filename |-> l.service_name]

\* the dict of the Azure return
ResultAzure(l) ==
    [word_path |-> PurePosixPathStr(<<OutputDir, l.word_filename>>),
     word_s3_key |-> Absent, word_blob_key |-> l.word_blob_key,
     pdf_path |-> Get(l.pdf_blob_key, <<>>),
     pdf_s3_key |-> Absent, pdf_blob_key |-> l.pdf_blob_key,
     filename |-> l.service_name]

\* the dict of the Docker/local return
ResultLocal(r, l) ==
    [word_path |-> JoinPath(LocalSaveFolder(l.folder_path), l.word_filename),
     word_s3_key |-> Absent, word_blob_key |-> Absent,
     pdf_path |-> IF r.meta = "update"
                  THEN JoinPath(LocalSaveFolder(l.folder_path),
                                S_PA_GC \o Get(r.gcloud_version, V_14) \o S_SpaceServiceDesc
                                    \o Get(r.service_name, r.title) \o S_dot_pdf)
                  ELSE PurePosixPathStr(<<OutputDir, l.service_name \o S_dot_pdf>>),
     pdf_s3_key |-> Absent, pdf_blob_key |-> Absent,
     filename |-> l.service_name]

\* return {...}
ReturnResult ==
    /\ gpc = "converted"
    /\ result' = CASE backend = "s3" -> ResultS3(loc)
                   [] backend = "azure" -> ResultAzure(loc)
                   [] OTHER -> ResultLocal(req, loc)
    /\ outcome' = "success"
    /\ gpc' = "returned"
    /\ UNCHANGED <<backend, req, folder_exists, loc, store, store0, partial, write_failed,
                   delete_failed, conv, response>>
    /\ UNCHANGED otherThanGen

\* result.get('pdf_path') or result.get('pdf_blob_key') or result.get('pdf_s3_key', '')
ResultPdfPath(res) ==
    Or(res.pdf_path, Or(Get(res.pdf_blob_key, <<>>), Get(res.pdf_s3_key, <<>>)))

\* the download URL of a file name
DownloadUrl(name) == S_Download \o name

\* pdf_path after the Azure / AWS branch of the route
RoutePdfPath(be, res, st, raises) ==
    LET p == ResultPdfPath(res)
    IN  IF p # <<>> /\ ~StartsWith(p, S_http)
        THEN IF be = "azure" /\ Get(res.pdf_blob_key, <<>>) # <<>>
             THEN IF ~raises /\ res.pdf_blob_key.value \in st
                  THEN DownloadUrl(PathName(res.pdf_blob_key.value))
                  ELSE <<>>
             ELSE IF be = "s3" /\ ~raises THEN PresignedUrl(p)
             ELSE p
        ELSE p

\* the GenerateResponse of the route; no PDF exists on the local filesystem
\* of the server, so a local pdf_path is kept as it is
GenerateResponse(be, res, st, raises) ==
    LET p1 == RoutePdfPath(be, res, st, raises)
        word_local == res.word_path # <<>> /\ ~StartsWith(res.word_path, S_http)
        word_name  == IF word_local THEN PathName(res.word_path) ELSE <<>>
        pdf_local  == p1 # <<>> /\ ~StartsWith(p1, S_http) /\ ~StartsWith(p1, S_api)
        pdf_name   == IF pdf_local THEN PathName(p1) ELSE <<>>
    IN  [success      |-> TRUE,
         word_filename |-> Or(word_name, res.filename \o S_dot_docx),
         pdf_filename  |-> Or(pdf_name, res.filename \o S_dot_pdf),
         word_path    |-> IF word_name # <<>> THEN DownloadUrl(word_name) ELSE res.word_path,
         pdf_path     |-> Or(p1, res.filename \o S_dot_pdf)]

\* the route generate_service_description after the generator returned:
\* blob_exists / get_presigned_url may raise, which the route swallows
BuildResponse ==
    /\ gpc = "returned"
    /\ \E raises \in BOOLEAN : response' = GenerateResponse(backend, result, store, raises)
    /\ gpc' = "done"
    /\ UNCHANGED <<backend, req, folder_exists, loc, store, store0, partial, write_failed,
                   outcome, delete_failed, conv, result>>
    /\ UNCHANGED otherThanGen

GenNext ==
    \/ DetermineLocation
    \/ RemoveStaleFiles
    \/ SaveDocument
    \/ UploadToAzure
    \/ UploadToS3
    \/ ConvertAzure
    \/ ConvertS3
    \/ ReturnResult
    \/ BuildResponse

SpecGen == GenInit /\ [][GenNext]_vars

\* C1: on each of the three backends, if a draft artifact exists at K_draft
\* and the call is run with save_as_draft=false for the same service, doc
\* type, version and lot, then when the call returns K_draft is absent from
\* the store and K_final is present.
C1_DraftSuperseded ==
    (/\ gpc = "done"
     /\ outcome = "success"
     /\ ~req.save_as_draft
     /\ PublishKey(backend, req, folder_exists, TRUE) \in store0)
    => /\ PublishKey(backend, req, folder_exists, TRUE) \notin store
       /\ PublishKey(backend, req, folder_exists, FALSE) \in store

\* the tuple of the request as build_service_blob_key takes it
CanonicalKey(r, l) ==
    BuildServiceBlobKey(l.service_name, l.doc_type, l.gcloud_version, r.lot.value, S_docx,
                        r.save_as_draft)

\* C9: for the same service name, doc type, version, lot and draft flag given
\* through update_metadata or new_proposal_metadata, also without a 'lot'
\* entry or with a caller-supplied folder_path, the key of the Word artifact
\* on the S3-like backend equals the key on the Azure-like backend, and both
\* equal build_service_blob_key of the tuple.
C9_BackendIndependentKey ==
    gpc = "done" =>
        /\ PublishKey("s3", req, folder_exists, req.save_as_draft)
               = PublishKey("azure", req, folder_exists, req.save_as_draft)
        /\ req.lot.present =>
               PublishKey("azure", req, folder_exists, req.save_as_draft)
                   = CanonicalKey(req, loc)

\* C10: on every backend, if the write of the Word artifact to the storage
\* backend fails, the call ends with an error surfaced to the caller and no
\* partial artifact is left at the artifact's key.
C10_WriteFailureFatal ==
    (gpc = "done" /\ write_failed) =>
        /\ outcome = "error"
        /\ ArtifactKey(backend, req, loc) \notin partial

\* the converter was called and failed, timed out or reported failure
ConversionFailed == conv \in {"raises", "status", "reports"}

\* the call returned the Word artifact
WordReturned ==
    /\ outcome = "success"
    /\ result.word_path # <<>>
    /\ ArtifactKey(backend, req, loc) \in store

\* C11: on every backend that calls the remote converter, if the conversion
\* call fails, times out or reports failure, generation still succeeds and
\* returns the Word artifact, and the PDF field of the returned result and of
\* the HTTP response built from it is empty.
C11_PdfFailureWordOnly ==
    (gpc = "done" /\ ConversionFailed) =>
        /\ WordReturned
        /\ result.pdf_path = <<>>
        /\ response.pdf_path = <<>>

\* C12: during a non-draft generation, if deleting the stale draft or a
\* previous final artifact raises, generation continues and the final
\* artifact is still written and published.
C12_DeleteFailureNonFatal ==
    (gpc = "done" /\ delete_failed) =>
        /\ outcome = "success"
        /\ PublishKey(backend, req, folder_exists, FALSE) \in store

(***************************************************************************)
(* Two workers run generate_service_description for the same artifact key  *)
(* on one filesystem: doc.save and _replace_in_saved_docx write word_path  *)
(* in place, and on a remote backend the file is then uploaded.  A package *)
(* is written as MaxChunks members; a written member records whose save it *)
(* comes from and whose pass 2 went over it.                               *)
(***************************************************************************)

MaxChunks == 2

Workers == {1, 2}

\* a member of a package: of the save of worker gen; pass2 is the worker whose
\* pass 2 replaced its markers, 0 before pass 2
Chunk(g, i, by) == [gen |-> g, part |-> i, pass2 |-> by]

\* bytes of a file that no write has filled
Hole == Chunk(0, 0, 0)

\* what doc.save of worker w writes
SavedPackage(w) == [i \in 1..MaxChunks |-> Chunk(w, i, 0)]

\* the complete fully-substituted output of worker w
CompleteOutput(w) == [i \in 1..MaxChunks |-> Chunk(w, i, w)]

NoFile == [exists |-> FALSE, data |-> <<>>]

\* open(path, 'wb'): the file exists and is empty
Truncated == [exists |-> TRUE, data |-> <<>>]

\* write(chunks) at offset pos of a file
WriteAt(data, pos, chunks) ==
    LET n == IF Len(data) > pos + Len(chunks) THEN Len(data) ELSE pos + Len(chunks)
    IN  [i \in 1..n |-> IF i > pos /\ i <= pos + Len(chunks) THEN chunks[i - pos]
                        ELSE IF i <= Len(data) THEN data[i]
                        ELSE Hole]

\* ZipFile(docx_path, 'r') and zin.read of every member go through: the file
\* is all the members of one save
Readable(data) ==
    /\ Len(data) = MaxChunks
    /\ \E g \in Workers : \A i \in 1..MaxChunks : data[i].gen = g /\ data[i].part = i

\* the package pass 2 of worker w builds in memory from the file it read
PatchedBy(data, w) ==
    [i \in 1..Len(data) |-> IF data[i].pass2 = 0 THEN Chunk(data[i].gen, i, w) ELSE data[i]]

otherThanRace == <<substVars, bodyVars, composeVars, keyVars, genVars, tplVars, listVars, quVars>>

RaceInit ==
    /\ rpc = [w \in Workers |-> "start"]
    /\ shared \in {"local", "remote"}
    /\ word_file = NoFile
    /\ rpos = [w \in Workers |-> 0]
    /\ rbuf = [w \in Workers |-> <<>>]
    /\ published = NoFile
    /\ SubstIdle
    /\ BodyIdle
    /\ ComposeIdle
    /\ KeyIdle
    /\ GenIdle
    /\ TemplateIdle
    /\ ListingIdle
    /\ QuestionnaireIdle

\* doc.save(str(word_path)): the file is opened for writing
SaveOpen(w) ==
    /\ rpc[w] = "start"
    /\ word_file' = Truncated
    /\ rpos' = [rpos EXCEPT ![w] = 0]
    /\ rpc' = [rpc EXCEPT ![w] = "saving"]
    /\ UNCHANGED <<shared, rbuf, published>>
    /\ UNCHANGED otherThanRace

\* doc.save(str(word_path)): the next member is written at the offset of
\* this worker's open file
SaveWrite(w) ==
    /\ rpc[w] = "saving"
    /\ word_file' = [word_file EXCEPT
                       !.data = WriteAt(@, rpos[w], <<SavedPackage(w)[rpos[w] + 1]>>)]
    /\ rpos' = [rpos EXCEPT ![w] = @ + 1]
    /\ rpc' = [rpc EXCEPT ![w] = IF rpos[w] + 1 = MaxChunks THEN "saved" ELSE "saving"]
    /\ UNCHANGED <<shared, rbuf, published>>
    /\ UNCHANGED otherThanRace

\* _replace_in_saved_docx: the file is read and the replaced package built in
\* memory; a file that does not read as a package raises, which is swallowed
Pass2Read(w) ==
    /\ rpc[w] = "saved"
    /\ IF word_file.exists /\ Readable(word_file.data)
       THEN /\ rbuf' = [rbuf EXCEPT ![w] = PatchedBy(word_file.data, w)]
            /\ rpc' = [rpc EXCEPT ![w] = "patched"]
       ELSE /\ rpc' = [rpc EXCEPT ![w] = "final"]
            /\ UNCHANGED rbuf
    /\ UNCHANGED <<shared, word_file, rpos, published>>
    /\ UNCHANGED otherThanRace

\* _replace_in_saved_docx: open(docx_path, 'wb')
Pass2Open(w) ==
    /\ rpc[w] = "patched"
    /\ word_file' = Truncated
    /\ rpc' = [rpc EXCEPT ![w] = "rewriting"]
    /\ UNCHANGED <<shared, rpos, rbuf, published>>
    /\ UNCHANGED otherThanRace

\* _replace_in_saved_docx: f.write(buf.getvalue())
Pass2Write(w) ==
    /\ rpc[w] = "rewriting"
    /\ word_file' = [word_file EXCEPT !.data = WriteAt(@, 0, rbuf[w])]
    /\ rpc' = [rpc EXCEPT ![w] = "final"]
    /\ UNCHANGED <<shared, rpos, rbuf, published>>
    /\ UNCHANGED otherThanRace

\* upload_file / upload_fileobj: the object at the key becomes what the file
\* holds when it is read
Upload(w) ==
    /\ rpc[w] = "final"
    /\ shared = "remote"
    /\ published' = [exists |-> TRUE, data |-> word_file.data]
    /\ rpc' = [rpc EXCEPT ![w] = "done"]
    /\ UNCHANGED <<shared, word_file, rpos, rbuf>>
    /\ UNCHANGED otherThanRace

\* the local backend returns: word_path is the artifact
ReturnLocal(w) ==
    /\ rpc[w] = "final"
    /\ shared = "local"
    /\ rpc' = [rpc EXCEPT ![w] = "done"]
    /\ UNCHANGED <<shared, word_file, rpos, rbuf, published>>
    /\ UNCHANGED otherThanRace

RaceNext ==
    \E w \in Workers :
        \/ SaveOpen(w)
        \/ SaveWrite(w)
        \/ Pass2Read(w)
        \/ Pass2Open(w)
        \/ Pass2Write(w)
        \/ Upload(w)
        \/ ReturnLocal(w)

SpecRace == RaceInit /\ [][RaceNext]_vars

\* absent, or the complete fully-substituted output of exactly one worker
AbsentOrComplete(content) ==
    content.exists => \E w \in Workers : content.data = CompleteOutput(w)

\* C13: when two generations for the same artifact key run concurrently, in
\* every reachable state the content readable at that key, and at the local
\* working file that is uploaded for it, is either absent or the complete
\* fully-substituted output of exactly one of the two generations.
C13_NoInterleavedPartialWrites ==
    (\A w \in Workers : rpc[w] # "start") =>
        /\ AbsentOrComplete(word_file)
        /\ AbsentOrComplete(published)

(***************************************************************************)
(* The substitution machine: generate_service_description seen from the    *)
(* text nodes of the tree and the parts of the package                     *)
(***************************************************************************)

otherThanSubst == <<bodyVars, composeVars, keyVars, genVars, raceVars, tplVars, listVars, quVars>>

\* doc = Document(template_path)
SubstInit ==
    /\ spc = "loaded"
    /\ title \in Titles
    /\ descr \in Descriptions
    /\ tree \in TemplateTrees
    /\ \E v \in TemplateVariants :
          /\ settings = v[3]
          /\ tmpl = TemplatePackage(tree, v[1], v[2], v[3])
    /\ pkg = <<>>
    /\ treeOnce = <<>>
    /\ pkgOnce = <<>>
    /\ wt_raises \in BOOLEAN
    /\ BodyIdle
    /\ ComposeIdle
    /\ KeyIdle
    /\ GenIdle
    /\ RaceIdle
    /\ TemplateIdle
    /\ ListingIdle
    /\ QuestionnaireIdle

\* the content block: the title heading and the description paragraph are
\* new text nodes of the tree
ComposeText ==
    /\ spc = "loaded"
    /\ tree' = tree \o << [ns |-> "w", text |-> title], [ns |-> "w", text |-> descr] >>
    /\ spc' = "composed"
    /\ UNCHANGED <<title, descr, settings, tmpl, pkg, treeOnce, pkgOnce, wt_raises>>
    /\ UNCHANGED otherThanSubst

EnableUpdateFields ==
    /\ spc = "composed"
    /\ settings' = EnableUpdateFieldsOnOpen(settings)
    /\ spc' = "fields"
    /\ UNCHANGED <<title, descr, tree, tmpl, pkg, treeOnce, pkgOnce, wt_raises>>
    /\ UNCHANGED otherThanSubst

\* pass 1: self._replace_text_in_all_wt(doc, {...})
Pass1 ==
    /\ spc = "fields"
    /\ tree' = ReplaceTextInAllWtOf(tree, PlaceholderMap(title), wt_raises)
    /\ treeOnce' = tree'
    /\ spc' = "pass1"
    /\ UNCHANGED <<title, descr, settings, tmpl, pkg, pkgOnce, wt_raises>>
    /\ UNCHANGED otherThanSubst

\* pass 1 applied a second time to the same tree
Pass1Again ==
    /\ spc = "pass1"
    /\ tree' = ReplaceTextInAllWtOf(tree, PlaceholderMap(title), wt_raises)
    /\ spc' = "pass1_twice"
    /\ UNCHANGED <<title, descr, settings, tmpl, pkg, treeOnce, pkgOnce, wt_raises>>
    /\ UNCHANGED otherThanSubst

\* doc.save(str(word_path))
Save ==
    /\ spc = "pass1"
    /\ pkg' = SavePackage(tmpl, tree, settings)
    /\ spc' = "saved"
    /\ UNCHANGED <<title, descr, tree, settings, tmpl, treeOnce, pkgOnce, wt_raises>>
    /\ UNCHANGED otherThanSubst

\* pass 2: self._replace_in_saved_docx(str(word_path), {...})
Pass2 ==
    /\ spc = "saved"
    /\ pkg' = ReplaceInSavedDocx(pkg, PlaceholderMap(title))
    /\ pkgOnce' = pkg'
    /\ spc' = "pass2"
    /\ UNCHANGED <<title, descr, tree, settings, tmpl, treeOnce, wt_raises>>
    /\ UNCHANGED otherThanSubst

\* pass 2 applied a second time to the same saved package
Pass2Again ==
    /\ spc = "pass2"
    /\ pkg' = ReplaceInSavedDocx(pkg, PlaceholderMap(title))
    /\ spc' = "pass2_twice"
    /\ UNCHANGED <<title, descr, tree, settings, tmpl, treeOnce, pkgOnce, wt_raises>>
    /\ UNCHANGED otherThanSubst

SubstNext ==
    \/ ComposeText
    \/ EnableUpdateFields
    \/ Pass1
    \/ Pass1Again
    \/ Save
    \/ Pass2
    \/ Pass2Again

SpecSubst == SubstInit /\ [][SubstNext]_vars

(***************************************************************************)
(* Claims about the placeholder resolver and the package                   *)
(***************************************************************************)

IsWordXml(name) == StartsWith(name, S_word) /\ EndsWith(name, S_xml)

HasMarker(s) == \E k \in 1..Len(Markers) : Contains(s, Markers[k])

\* C2: applying pass 1 twice gives the same text nodes as applying it once,
\* and applying pass 2 twice gives the same part contents as applying it
\* once, for every text and every title.
C2_IdempotentSubstitution ==
    /\ spc = "pass1_twice" => tree = treeOnce
    /\ spc = "pass2_twice" => pkg = pkgOnce

\* C3: after pass 1 on the tree and pass 2 on the saved package, no XML part
\* under word/ contains a marker of the Placeholder Map as a contiguous
\* literal, for every title that does not itself contain a marker.
C3_NoLeftoverPlaceholder ==
    (spc = "pass2" /\ ~HasMarker(title)) =>
        \A i \in 1..Len(pkg) :
            (IsWordXml(pkg[i].name) /\ pkg[i].utf8) => ~HasMarker(pkg[i].data)

RECURSIVE SingleScanFrom(_, _, _)
SingleScanFrom(txt, mapping, i) ==
    IF i > Len(txt) THEN <<>>
    ELSE LET hits == {k \in 1..Len(mapping) : MatchAt(txt, mapping[k][1], i)}
         IN  IF hits = {} THEN <<txt[i]>> \o SingleScanFrom(txt, mapping, i + 1)
             ELSE LET k == CHOOSE h \in hits : \A j \in hits : h <= j
                  IN  mapping[k][2] \o SingleScanFrom(txt, mapping, i + Len(mapping[k][1]))

SingleScan(txt, mapping) == SingleScanFrom(txt, mapping, 1)

\* the orders the entries of a map could be iterated in
IterationOrders(mapping) ==
    {[i \in 1..Len(mapping) |-> mapping[f[i]]] :
        f \in {g \in [1..Len(mapping) -> 1..Len(mapping)] :
                  \A a, b \in 1..Len(mapping) : a # b => g[a] # g[b]}}

\* C16: for every text node and every Placeholder Map, the result of pass 1
\* equals the result of one left-to-right scan in which each marker
\* occurrence of the original text is replaced once and inserted text is not
\* scanned again; so the result is the same for every iteration order of the
\* map's entries.
C16_SingleScanSubstitution ==
    [][(spc = "fields" /\ spc' = "pass1") =>
          /\ \A i \in 1..Len(tree) :
                tree'[i].text = SingleScan(tree[i].text, PlaceholderMap(title))
          /\ \A order \in IterationOrders(PlaceholderMap(title)) :
                ReplaceTextInAllWtOf(tree, order, wt_raises) = tree']_vars

(***************************************************************************)
(* HTML outside the supported grammar                                      *)
(***************************************************************************)

\* the names the top-level dispatch of _insert_html has a branch for
SupportedTopLevel == {"#text", "h3", "p", "ul", "ol", "br"}

\* the paragraphs of the tree that the template did not have
InsertedParas(b, template) ==
    {k \in 1..Len(b) : b[k].tag = "p" /\ b[k].id \notin Ids(template)}

\* every non-blank text node of the HTML is in the text of an inserted paragraph
TextKept(b, template, html) ==
    \A t \in KidsLeaves(html) :
        Strip(t) # <<>> =>
            \E k \in InsertedParas(b, template) : Contains(ParaText(b[k]), t)

\* every top-level tag without a branch gave a Normal paragraph with its text
UnsupportedAsNormal(b, template, html) ==
    \A i \in 1..Len(html) :
        html[i].name \notin SupportedTopLevel =>
            \E k \in InsertedParas(b, template) :
                b[k].style = "Normal" /\ ParaText(b[k]) = GetText(html[i])

\* C17: once the content block is in the tree, composition has not raised,
\* every non-whitespace text node of every block's HTML is in the text of a
\* paragraph _insert_html added, and every top-level tag outside the grammar
\* gave a Normal paragraph holding its text
C17_HtmlDegradationSafety ==
    Composed =>
        \A i \in 1..Len(inp.service_definition) :
            /\ TextKept(doc.b, tpl, inp.service_definition[i].content)
            /\ UnsupportedAsNormal(doc.b, tpl, inp.service_definition[i].content)

RECURSIVE ImgNodes(_)
\* the img elements of a list of HTML nodes, at any depth
ImgNodes(els) ==
    IF els = <<>> THEN {}
    ELSE (IF Head(els).name = "img" THEN {Head(els)}
          ELSE ImgNodes(Head(els).kids)) \cup ImgNodes(Tail(els))

\* f"[image: {src}]"
ImagePlaceholder(src) == S_ImageOpen \o src \o S_ImageClose

\* the img elements with a source whose fetch or decoding fails
FailedImages(html) == {im \in ImgNodes(html) : im.src # <<>> /\ im.fetch # "ok"}

\* C18: once the content block is in the tree, composition has not raised and
\* for every img element with a src whose fetch or decoding fails, in a
\* paragraph or at top level, the tree holds the text "[image: <src>]"
C18_ImageFailurePlaceholder ==
    Composed =>
        \A i \in 1..Len(inp.service_definition) :
            \A im \in FailedImages(inp.service_definition[i].content) :
                \E k \in InsertedParas(doc.b, tpl) :
                    Contains(ParaText(doc.b[k]), ImagePlaceholder(im.src))

(***************************************************************************)
(* A template without the Service Definition heading                       *)
(***************************************************************************)

\* the heading paragraphs whose text is the given one
HeadingPositions(b, text) == {k \in 1..Len(b) : IsHeadingPara(b[k]) /\ ParaText(b[k]) = text}

\* no heading of the template would be found for the given text
LacksHeading(template, text) ==
    \A k \in 1..Len(template) :
        IsHeadingPara(template[k]) => ~Contains(ParaText(template[k]), text)

\* the nodes the template had, the About block and the section properties aside
ExistingContent(b, template, about) ==
    {k \in 1..Len(b) : /\ b[k].id \in Ids(template)
                        /\ b[k].id \notin Ids(about)
                        /\ b[k].tag # "sectPr"}

\* C19: when the template has no "Service Definition" heading and
\* service_definition is not empty, the finished tree has exactly one heading
\* paragraph with that text, and it, with the subsections that follow it,
\* comes after every node kept from the template (the About block, which is
\* re-appended last, and the section properties aside)
C19_MissingDefinitionHeading ==
    (/\ cpc = "built"
     /\ LacksHeading(tpl, H_ServiceDefinition)
     /\ inp.service_definition # <<>>) =>
        /\ Cardinality(HeadingPositions(doc.b, H_ServiceDefinition)) = 1
        /\ \A h \in HeadingPositions(doc.b, H_ServiceDefinition) :
              \A k \in ExistingContent(doc.b, tpl, about_pa_block) : k < h

(***************************************************************************)
(* Template resolution                                                     *)
(*                                                                         *)
(* A file is [dir, name]: "cfg" is where the environment variable points,  *)
(* "docs" and "templates" are the two directories the generators search,   *)
(* "s3" is the template bucket (name is the key).                          *)
(***************************************************************************)

N_Env ==
    <<"t",".","d","o","c","x">>
N_DocsPricing ==
    <<"P","A"," ","G","C","1","5"," ","P","r","i","c","i","n","g"," ","D","o","c"," ","S","E","R","V","I","C","E"," ","T","I","T","L","E",".","d","o","c","x">>
N_DocsOther ==
    <<"a",".","d","o","c","x">>
N_ServiceDescriptionTemplate ==
    <<"s","e","r","v","i","c","e","_","d","e","s","c","r","i","p","t","i","o","n","_","t","e","m","p","l","a","t","e",".","d","o","c","x">>
N_PricingTemplate ==
    <<"p","r","i","c","i","n","g","_","t","e","m","p","l","a","t","e",".","d","o","c","x">>
N_TemplatesOther ==
    <<"m","y"," ","p","r","i","c","i","n","g"," ","v","2",".","d","o","c","x">>
K_ServiceDescription ==
    <<"t","e","m","p","l","a","t","e","s","/","s","e","r","v","i","c","e","_","d","e","s","c","r","i","p","t","i","o","n","_","t","e","m","p","l","a","t","e",".","d","o","c","x">>
K_Pricing ==
    <<"t","e","m","p","l","a","t","e","s","/","p","r","i","c","i","n","g","_","t","e","m","p","l","a","t","e",".","d","o","c","x">>
K_Configured ==
    <<"c","u","s","t","o","m","/","t",".","d","o","c","x">>
S_pricing ==
    <<"p","r","i","c","i","n","g">>

File(dir, name) == [dir |-> dir, name |-> name]

TemplateFiles ==
    {File("cfg", N_Env), File("docs", N_DocsPricing), File("docs", N_DocsOther),
     File("templates", N_ServiceDescriptionTemplate), File("templates", N_PricingTemplate),
     File("templates", N_TemplatesOther)}

TemplateKeys == {K_ServiceDescription, K_Pricing, K_Configured}

Generators == {"service_description", "pricing"}

\* dir.glob("*<part>*.docx") over the files that exist
Glob(disk, dir, part) ==
    {f \in disk : f.dir = dir /\ EndsWith(f.name, S_dot_docx)
                               /\ Contains(SubSeq(f.name, 1, Len(f.name) - Len(S_dot_docx)), part)}

\* os.environ.get("TEMPLATE_S3_KEY", ...) / os.environ.get("PRICING_TEMPLATE_S3_KEY", ...)
TemplateKey(gen, env) ==
    IF env # <<>> THEN env
    ELSE IF gen = "service_description" THEN K_ServiceDescription ELSE K_Pricing

\* the named file of the templates directory each generator falls back to
FallbackTemplate(gen) ==
    IF gen = "service_description" THEN File("templates", N_ServiceDescriptionTemplate)
    ELSE File("templates", N_PricingTemplate)

\* the paths template_path can have when the filesystem branch reaches its
\* existence test; a glob yields its matches in no fixed order
LocalTemplatePaths(gen, docker, env, disk) ==
    IF env # <<>> /\ File("cfg", env) \in disk THEN {File("cfg", env)}
    ELSE IF gen = "service_description"
    THEN LET docs  == Glob(disk, "docs", <<>>)
             local == Glob(disk, "templates", <<>>)
         IN  IF docs # {} THEN docs
             ELSE IF ~docker /\ local # {} THEN local
             ELSE {FallbackTemplate(gen)}
    ELSE LET candidate == File("docs", N_DocsPricing)
             local     == Glob(disk, "templates", S_pricing)
         IN  IF candidate \in disk THEN {candidate}
             ELSE IF ~docker /\ local # {} THEN local
             ELSE {FallbackTemplate(gen)}

otherThanTemplate == <<substVars, bodyVars, composeVars, keyVars, genVars, raceVars, listVars, quVars>>

TemplateInit ==
    /\ tpc = "start"
    /\ generator \in Generators
    /\ use_s3 \in BOOLEAN
    /\ is_docker \in (IF use_s3 THEN {FALSE} ELSE BOOLEAN)
    /\ template_env \in (IF use_s3 THEN {<<>>, K_Configured} ELSE {<<>>, N_Env})
    /\ on_disk \in (IF use_s3 THEN {{}} ELSE SUBSET TemplateFiles)
    /\ template_bucket \in (IF use_s3 THEN BOOLEAN ELSE {FALSE})
    /\ objects \in (IF use_s3 THEN SUBSET TemplateKeys ELSE {{}})
    /\ template_path = <<>>
    /\ raised = ""
    /\ touched = {}
    /\ SubstIdle
    /\ BodyIdle
    /\ ComposeIdle
    /\ KeyIdle
    /\ GenIdle
    /\ RaceIdle
    /\ ListingIdle
    /\ QuestionnaireIdle

\* self.s3_service.download_template(template_key, template_path)
DownloadTemplate ==
    /\ tpc = "start"
    /\ use_s3
    /\ LET key == TemplateKey(generator, template_env)
       IN  /\ raised' = IF ~template_bucket THEN "ValueError"
                         ELSE IF key \notin objects THEN "FileNotFoundError"
                         ELSE ""
           /\ template_path' = IF raised' = "" THEN File("s3", key) ELSE <<>>
           /\ tpc' = IF raised' = "" THEN "loaded" ELSE "failed"
    /\ UNCHANGED <<generator, use_s3, is_docker, template_env, on_disk, template_bucket,
                   objects, touched>>
    /\ UNCHANGED otherThanTemplate

\* the filesystem branch, up to `if not Path(template_path).exists(): raise`
LocateTemplate ==
    /\ tpc = "start"
    /\ ~use_s3
    /\ \E p \in LocalTemplatePaths(generator, is_docker, template_env, on_disk) :
          /\ raised' = IF p \in on_disk THEN "" ELSE "FileNotFoundError"
          /\ template_path' = IF p \in on_disk THEN p ELSE <<>>
          /\ tpc' = IF p \in on_disk THEN "loaded" ELSE "failed"
    /\ UNCHANGED <<generator, use_s3, is_docker, template_env, on_disk, template_bucket,
                   objects, touched>>
    /\ UNCHANGED otherThanTemplate

\* draft_path.unlink() / existing_file.unlink() of generate_service_description
UnlinkPrevious ==
    /\ tpc = "loaded"
    /\ generator = "service_description"
    /\ ~use_s3
    /\ touched' = touched \cup {"deleted"}
    /\ tpc' = "cleaned"
    /\ UNCHANGED <<generator, use_s3, is_docker, template_env, on_disk, template_bucket,
                   objects, template_path, raised>>
    /\ UNCHANGED otherThanTemplate

\* doc.save(str(word_path))
SaveWord ==
    /\ tpc \in {"loaded", "cleaned"}
    /\ touched' = touched \cup {"written"}
    /\ tpc' = "saved"
    /\ UNCHANGED <<generator, use_s3, is_docker, template_env, on_disk, template_bucket,
                   objects, template_path, raised>>
    /\ UNCHANGED otherThanTemplate

\* s3_client.upload_fileobj(...) of the Lambda deployment
UploadWord ==
    /\ tpc = "saved"
    /\ use_s3
    /\ touched' = touched \cup {"uploaded"}
    /\ tpc' = "uploaded"
    /\ UNCHANGED <<generator, use_s3, is_docker, template_env, on_disk, template_bucket,
                   objects, template_path, raised>>
    /\ UNCHANGED otherThanTemplate

TemplateNext ==
    \/ DownloadTemplate
    \/ LocateTemplate
    \/ UnlinkPrevious
    \/ SaveWord
    \/ UploadWord

SpecTemplate == TemplateInit /\ [][TemplateNext]_vars

\* the ordered candidate list of a generator in an environment; a glob is
\* one candidate that stands for any of the files it can match
Candidates(gen, s3, docker, env) ==
    IF s3 THEN << {File("s3", TemplateKey(gen, env))} >>
    ELSE (IF env # <<>> THEN << {File("cfg", env)} >> ELSE <<>>)
         \o << IF gen = "service_description" THEN Glob(TemplateFiles, "docs", <<>>)
               ELSE {File("docs", N_DocsPricing)} >>
         \o (IF docker THEN <<>>
             ELSE << Glob(TemplateFiles, "templates",
                          IF gen = "service_description" THEN <<>> ELSE S_pricing) >>)
         \o << {FallbackTemplate(gen)} >>

\* the files and bucket objects that can be read
Existing(s3, disk, bucket, objs) ==
    IF s3 THEN (IF bucket THEN {File("s3", k) : k \in objs} ELSE {}) ELSE disk

\* the existing files of the first candidate that has one; {} when none has
FirstExisting(cands, ex) ==
    LET hits == {i \in 1..Len(cands) : cands[i] \cap ex # {}}
    IN  IF hits = {} THEN {}
        ELSE cands[CHOOSE i \in hits : \A j \in hits : i <= j] \cap ex

\* C20: once template loading is over, the template opened is an existing file
\* of the first candidate that has one, and when no candidate exists the call
\* has raised FileNotFoundError and no artifact was deleted, written or
\* uploaded, then or later
C20_TemplateResolution ==
    tpc # "start" =>
        LET first == FirstExisting(Candidates(generator, use_s3, is_docker, template_env),
                                   Existing(use_s3, on_disk, template_bucket, objects))
        IN  IF first # {}
            THEN raised = "" /\ template_path \in first
            ELSE raised = "FileNotFoundError" /\ template_path = <<>> /\ touched = {}

(***************************************************************************)
(* The generated file name                                                 *)
(***************************************************************************)

\* "PA GC<version> <DOC TYPE> <name>[_draft].docx"
ConventionalFilename(l, draft) ==
    S_PA_GC \o l.gcloud_version
        \o (IF l.doc_type = S_SERVICE_DESC THEN S_SpaceServiceDesc ELSE S_SpacePricingDoc)
        \o l.actual_folder_name \o (IF draft THEN S_draft ELSE <<>>) \o S_dot_docx

\* C21: once the file name is determined it has the form
\* "PA GC<version> <DOC TYPE> <Service Name>[_draft].docx": the name used when
\* saving as draft is the name used when completing with "_draft" put right
\* before the final ".docx" and nothing else changed
C21_FilenameConvention ==
    gpc # "start" => loc.word_filename = ConventionalFilename(loc, req.save_as_draft)

(***************************************************************************)
(* The proposal listings of the Azure deployment                           *)
(*                                                                         *)
(* A blob is [name, meta]: meta is the dict the endpoints parse out of a    *)
(* metadata blob (owner, service, service_name), <<>> for other blobs.     *)
(* The responses are taken as sets: the timestamps they are sorted by are  *)
(* not part of the model.                                                  *)
(***************************************************************************)

S_metadata_json ==
    <<"m","e","t","a","d","a","t","a",".","j","s","o","n">>
S_dot_txt ==
    <<".","t","x","t">>
S_OWNER ==
    <<"O","W","N","E","R">>
S_underscore ==
    <<"_">>
S_space ==
    <<" ">>
O_Ann ==
    <<"A","n","n">>
O_ann ==
    <<"a","n","n">>
O_Bob ==
    <<"B","o","b">>
B_FolderA ==
    <<"A">>
B_FolderB ==
    <<"B">>
B_MetadataJson ==
    <<"m","e","t","a","d","a","t","a",".","j","s","o","n">>
B_OwnerTxt ==
    <<"O","W","N","E","R"," ","A","n","n",".","t","x","t">>
B_ServiceDescA ==
    <<"P","A"," ","G","C","1","5"," ","S","E","R","V","I","C","E"," ","D","E","S","C"," ","A",".","d","o","c","x">>
B_ServiceDescDraftB ==
    <<"P","A"," ","G","C","1","5"," ","S","E","R","V","I","C","E"," ","D","E","S","C"," ","B","_","d","r","a","f","t",".","d","o","c","x">>
B_PricingDocB ==
    <<"P","A"," ","G","C","1","5"," ","P","r","i","c","i","n","g"," ","D","o","c"," ","B",".","d","o","c","x">>

\* f"GCloud {gcloud_version}/PA Services/Cloud Support Services LOT {lot}/"
BasePrefix(gcloud_version, lot) == S_GCloud \o gcloud_version \o S_PAServicesMid \o lot \o <<"/">>

Blob(gcloud_version, lot, folder, file, meta) ==
    [name |-> BasePrefix(gcloud_version, lot) \o folder \o <<"/">> \o file, meta |-> meta]

\* the dict read from metadata.json, and the dict parsed from an OWNER text file
JsonMeta(owner, service_name) ==
    [owner |-> Some(owner), service |-> Absent, service_name |-> Some(service_name)]

TxtMeta(owner, service) ==
    [owner |-> Some(owner), service |-> Some(service), service_name |-> Absent]

BlobUniverse ==
    {Blob(V_15, L_2, B_FolderA, B_MetadataJson, JsonMeta(O_Ann, B_FolderA)),
     Blob(V_15, L_2, B_FolderA, B_OwnerTxt, TxtMeta(O_Ann, B_FolderA)),
     Blob(V_15, L_2, B_FolderA, B_ServiceDescA, <<>>),
     Blob(V_15, L_3, B_FolderB, B_MetadataJson, JsonMeta(O_ann, B_FolderB)),
     Blob(V_15, L_3, B_FolderB, B_ServiceDescDraftB, <<>>),
     Blob(V_15, L_3, B_FolderB, B_PricingDocB, <<>>)}

OwnerNames == {O_Ann, O_Bob}

ListedVersions == {V_14, V_15}

ListedLots == {L_2, L_3}

\* azure_blob_service.list_blobs(prefix=base_prefix)
ListBlobs(container, prefix) == {b \in container : StartsWith(b.name, prefix)}

\* service_folders: folder name (parts[3]) -> the blobs under it
ServiceFolders(listed) ==
    LET named == {b \in listed : Len(SplitSlash(b.name)) >= 4}
    IN  [f \in {SplitSlash(b.name)[4] : b \in named} |->
            {b \in named : SplitSlash(b.name)[4] = f}]

\* 'metadata.json' in blob_name or blob_name.endswith('/metadata.json')
IsJsonMetadata(name) == Contains(name, S_metadata_json)

\* blob_name.endswith('.txt') and 'OWNER' in blob_name
IsTxtMetadata(name) == EndsWith(name, S_dot_txt) /\ Contains(name, S_OWNER)

\* the metadata blobs the loop of get_proposals_by_owner can stop at: the
\* first blob of the folder, in listing order, that is of either kind
OwnerMetadataBlobs(folder_blobs, jsonFirst) ==
    LET json == {b \in folder_blobs : IsJsonMetadata(b.name)}
        txt  == {b \in folder_blobs : ~IsJsonMetadata(b.name) /\ IsTxtMetadata(b.name)}
    IN  IF json # {} /\ (jsonFirst \/ txt = {}) THEN json ELSE txt

\* the metadata blobs the loop of get_all_proposals_admin can stop at
AdminMetadataBlobs(folder_blobs) == {b \in folder_blobs : IsTxtMetadata(b.name)}

\* the status computed from the two existence flags
ProposalStatus(service_desc_exists, pricing_doc_exists) ==
    IF service_desc_exists /\ pricing_doc_exists THEN "complete"
    ELSE IF service_desc_exists \/ pricing_doc_exists THEN "incomplete"
    ELSE "draft"

\* f"{service_name}_{gcloud_version}_{lot}".replace(" ", "_").lower()
ProposalId(service_name, gcloud_version, lot) ==
    Lower(StrReplace(service_name \o S_underscore \o gcloud_version \o S_underscore \o lot,
                     S_space, S_underscore))

\* the dict appended to proposals
Proposal(service_name, gcloud_version, lot, sd, pd, owner) ==
    [id |-> ProposalId(service_name, gcloud_version, lot), title |-> service_name,
     gcloud_version |-> gcloud_version, lot |-> lot, status |-> ProposalStatus(sd, pd),
     service_desc_exists |-> sd, pricing_doc_exists |-> pd, owner |-> owner]

IsPricingDoc(name) == Contains(name, S_PricingDoc) /\ EndsWith(name, S_dot_docx)

\* get_proposals_by_owner, Azure branch
ProposalsByOwner(container, owner_name, jsonFirst) ==
    UNION {
      LET folders == ServiceFolders(ListBlobs(container, BasePrefix(v, lot)))
      IN  UNION {
            LET blob_names == folders[f]
                sd == \E b \in blob_names :
                         Contains(b.name, S_SERVICE_DESC) /\ EndsWith(b.name, S_dot_docx)
                pd == \E b \in blob_names :
                         /\ ~(Contains(b.name, S_SERVICE_DESC) /\ EndsWith(b.name, S_dot_docx))
                         /\ IsPricingDoc(b.name)
            IN  {Proposal(Or(Or(Get(mb.meta.service_name, <<>>), Get(mb.meta.service, <<>>)), f),
                          v, lot, sd, pd, Strip(Get(mb.meta.owner, <<>>))) :
                   mb \in {x \in OwnerMetadataBlobs(blob_names, jsonFirst) :
                             LET folder_owner == Strip(Get(x.meta.owner, <<>>))
                             IN  folder_owner # <<>> /\ Lower(folder_owner) = Lower(owner_name)}}
            : f \in DOMAIN folders}
      : v \in ListedVersions, lot \in ListedLots}

\* get_all_proposals_admin, Azure branch
AllProposalsAdmin(container) ==
    UNION {
      LET folders == ServiceFolders(ListBlobs(container, BasePrefix(v, lot)))
      IN  UNION {
            LET blob_names == folders[f]
                sd == \E b \in blob_names :
                         /\ Contains(b.name, S_SERVICE_DESC) /\ EndsWith(b.name, S_dot_docx)
                         /\ ~Contains(b.name, S_draft)
                pd == \E b \in blob_names :
                         /\ ~(/\ Contains(b.name, S_SERVICE_DESC) /\ EndsWith(b.name, S_dot_docx)
                              /\ ~Contains(b.name, S_draft))
                         /\ IsPricingDoc(b.name)
            IN  {Proposal(Get(mb.meta.service, f), v, lot, sd, pd,
                          Strip(Get(mb.meta.owner, <<>>))) :
                   mb \in AdminMetadataBlobs(blob_names)}
            : f \in DOMAIN folders}
      : v \in ListedVersions, lot \in ListedLots}

otherThanListing == <<substVars, bodyVars, composeVars, keyVars, genVars, raceVars, tplVars, quVars>>

ListingInit ==
    /\ blobs = {}
    /\ by_owner = {}
    /\ admin_all = {}
    /\ SubstIdle
    /\ BodyIdle
    /\ ComposeIdle
    /\ KeyIdle
    /\ GenIdle
    /\ RaceIdle
    /\ TemplateIdle
    /\ QuestionnaireIdle

\* azure_blob_service.upload_file(local_path, blob_name)
PutBlob(b) ==
    /\ b \notin blobs
    /\ blobs' = blobs \cup {b}
    /\ UNCHANGED <<by_owner, admin_all>>
    /\ UNCHANGED otherThanListing

\* GET /by-owner/{owner_name}
GetProposalsByOwner(owner_name) ==
    /\ \E jsonFirst \in BOOLEAN : by_owner' = ProposalsByOwner(blobs, owner_name, jsonFirst)
    /\ UNCHANGED <<blobs, admin_all>>
    /\ UNCHANGED otherThanListing

\* GET /admin/all
GetAllProposalsAdmin ==
    /\ admin_all' = AllProposalsAdmin(blobs)
    /\ UNCHANGED <<blobs, by_owner>>
    /\ UNCHANGED otherThanListing

ListingNext ==
    \/ \E b \in BlobUniverse : PutBlob(b)
    \/ \E o \in OwnerNames : GetProposalsByOwner(o)
    \/ GetAllProposalsAdmin

SpecListing == ListingInit /\ [][ListingNext]_vars

\* C22: in every state of the container, every proposal get_proposals_by_owner
\* returns for some owner name is returned by get_all_proposals_admin
C22_AdminListingComplete ==
    \A o \in OwnerNames, jsonFirst \in BOOLEAN :
        \A p \in ProposalsByOwner(blobs, o, jsonFirst) :
            \E q \in AllProposalsAdmin(blobs) : q.id = p.id

(***************************************************************************)
(* Drafts and the PDF converter                                            *)
(***************************************************************************)

\* the remote PDF converter was invoked in this call
ConverterInvoked == conv # "none"

\* the result names a PDF object of the storage backend
ReturnsPdfKey(res) == res.pdf_s3_key.present \/ res.pdf_blob_key.present

\* C23: on every backend a call with save_as_draft=true never invokes the
\* remote PDF converter, and the result it returns holds no PDF key
C23_NoPdfForDrafts ==
    req.save_as_draft =>
        /\ ~ConverterInvoked
        /\ (gpc \in {"returned", "done"} /\ outcome = "success") => ~ReturnsPdfKey(result)

(***************************************************************************)
(* The page break of the contents paragraph                                *)
(***************************************************************************)

\* the node right after the contents heading is a paragraph with a break
TocParagraphHasBreak(b) ==
    LET h == ContentsHeadingPos(b)
    IN  /\ h < Len(b)
        /\ b[h + 1].tag = "p"
        /\ HasBreak(b[h + 1])

\* C24: for every template with a Contents heading, in the final document the
\* paragraph right after the Contents heading (the TOC paragraph) carries a
\* page break, so that the content block after it starts on a new page
C24_ContentOnNewPage ==
    (cpc = "built" /\ ContentsHeadingIndex(tpl) # -1) => TocParagraphHasBreak(doc.b)

(***************************************************************************)
(* The order of the paragraphs of an HTML block                            *)
(***************************************************************************)

\* a tree of two paragraphs, numbered as Document() loads them; st.cur, the
\* first of them, is the anchor handed to _insert_html
AnchorTree ==
    LET b == Renumber(<<Para(0, "Normal", <<>>), Para(0, "Normal", <<>>)>>)
    IN  [b |-> b, n |-> Len(b) + 1, cur |-> b[1].id]

\* the positions of the paragraphs _insert_html added to the anchor tree;
\* ids are given in the order of creation, which is the order of the source
HtmlPositions(r) == {k \in 1..Len(r.b) : r.b[k].id \notin Ids(AnchorTree.b)}

\* the added paragraphs stand in the order in which their elements come
InSourceOrder(r) ==
    \A k, l \in HtmlPositions(r) : k < l => r.b[k].id < r.b[l].id

AllAfterAnchor(r) == \A k \in HtmlPositions(r) : k > PosOfId(r.b, AnchorTree.cur)

\* the paragraph returned is the last added paragraph of the document
ReturnsLast(r) ==
    HtmlPositions(r) # {} =>
        /\ HasId(r.b, r.cur)
        /\ PosOfId(r.b, r.cur) \in HtmlPositions(r)
        /\ \A k \in HtmlPositions(r) : k <= PosOfId(r.b, r.cur)

HtmlOrderKept(html) ==
    LET r == InsertHtml(AnchorTree, html)
    IN  InSourceOrder(r) /\ AllAfterAnchor(r) /\ ReturnsLast(r)

\* C25: for every HTML content with two or more top-level elements that the
\* composer has inserted, the paragraphs _insert_html adds are in the order of
\* their source elements, all after the anchor paragraph, and the paragraph
\* it returns is the last of them in the document
C25_HtmlBlockOrder ==
    Composed =>
        \A i \in 1..Len(inp.service_definition) :
            Len(inp.service_definition[i].content) >= 2 =>
                HtmlOrderKept(inp.service_definition[i].content)

(***************************************************************************)
(* The title heading and the section searches                              *)
(***************************************************************************)

\* the title heading of the template and the nodes under it, up to the next
\* heading
TitleBlock(template) ==
    LET h == FirstHeading1(template)
    IN  {h} \cup Region(template, h)

\* the title heading stands where the template had it, holds the title, and
\* the nodes under it follow it
TitleBlockKept(b, template, newTitle) ==
    LET h == FirstHeading1(template)
    IN  /\ \A k \in TitleBlock(template) : k <= Len(b) /\ b[k].id = template[k].id
        /\ ParaText(b[h]) = newTitle

\* C26: for every title, also one that contains the name of a section, the
\* first Heading 1 paragraph, which _replace_title set to the title, is at its
\* place after _remove_sections and the extraction of the About block,
\* together with the template content under it up to the next heading
C26_TitleHeadingKept ==
    (cpc = "extracted" /\ FirstHeading1(tpl) # 0) => TitleBlockKept(doc.b, tpl, inp.title)

(***************************************************************************)
(* Pass 2 and the markup of the parts                                      *)
(*                                                                         *)
(* The data of a part is a sequence of whole tags and of the characters    *)
(* between and inside them: a tag is one element, a character of text or   *)
(* of an attribute value is one element.                                   *)
(***************************************************************************)

\* the references an XML parser resolves without a DTD, of those the
\* serializer writes
EntityRefs == {X_amp, X_lt, X_gt}

\* no character of the data is a bare '<', and every '&' starts a reference
WellFormed(data) ==
    \A i \in 1..Len(data) :
        /\ data[i] # "<"
        /\ data[i] = "&" => \E e \in EntityRefs : MatchAt(data, e, i)

TextOpenTags == {"<w:t>", "<a:t>", "<dc:title>"}

TextCloseTags == {"</w:t>", "</a:t>", "</dc:title>"}

\* the data without the text content of its text elements: what is left are
\* the tags and the attribute values
RECURSIVE MarkupFrom(_, _, _)
MarkupFrom(data, i, inText) ==
    IF i > Len(data) THEN <<>>
    ELSE IF data[i] \in TextOpenTags THEN <<data[i]>> \o MarkupFrom(data, i + 1, TRUE)
    ELSE IF data[i] \in TextCloseTags THEN <<data[i]>> \o MarkupFrom(data, i + 1, FALSE)
    ELSE IF inText THEN MarkupFrom(data, i + 1, TRUE)
    ELSE <<data[i]>> \o MarkupFrom(data, i + 1, FALSE)

Markup(data) == MarkupFrom(data, 1, FALSE)

\* C27: for every title, also one with '&', '<' or '>', every XML part under
\* word/ that is well-formed before _replace_in_saved_docx is well-formed
\* after it, and the pass changes text content only: the tags and the
\* attribute values of the part are the same before and after
C27_Pass2KeepsWellFormed ==
    [][(spc = "saved" /\ spc' = "pass2") =>
          \A i \in 1..Len(pkg) :
              (IsWordXml(pkg[i].name) /\ WellFormed(pkg[i].data)) =>
                  /\ WellFormed(pkg'[i].data)
                  /\ Markup(pkg'[i].data) = Markup(pkg[i].data)]_vars

(***************************************************************************)
(* A completing call that fails                                            *)
(***************************************************************************)

\* the call was a completing one and ended with an error raised by the
\* write of the Word artifact
FinalGenerationFailed ==
    /\ gpc = "done"
    /\ ~req.save_as_draft
    /\ outcome = "error"
    /\ write_failed

\* C28: if a generation with save_as_draft=false fails after it has started
\* (the save, the rewrite of pass 2 or the upload raises), every draft and
\* final artifact of the key that was published before the call is still in
\* the store afterwards
C28_FailedFinalLosesNothing ==
    FinalGenerationFailed => store0 \subseteq store

(***************************************************************************)
(* The questionnaire responses: app/api/routes/questionnaire.py.  One      *)
(* questionnaire_responses.json per service folder, written whole by       *)
(* save_responses and rewritten by lock_questionnaire.                     *)
(***************************************************************************)

S_questionnaire_responses_json ==
    <<"/","q","u","e","s","t","i","o","n","n","a","i","r","e","_","r","e","s","p","o","n","s","e","s",".","j","s","o","n">>

\* blob_key / response_path of the responses of a service
ResponseKey(service_name, lot, gcloud_version) ==
    S_GCloud \o gcloud_version \o S_PAServicesMid \o lot \o <<"/">> \o service_name
        \o S_questionnaire_responses_json

\* the (service_name, lot, gcloud_version) the requests are made for
QuFolders == {<<N_A, L_2, V_15>>, <<N_A, L_3, V_15>>}

ResponseKeys == {ResponseKey(f[1], f[2], f[3]) : f \in QuFolders}

\* a QuestionAnswer
QuestionAnswer(question_text, answer) ==
    [question_text |-> question_text, question_type |-> "radio", answer |-> answer,
     section_name |-> "Security"]

\* the answer lists of the requests
AnswerLists ==
    {<<>>, <<QuestionAnswer("Q1", "yes")>>, <<QuestionAnswer("Q1", "no")>>}

\* response_data of save_questionnaire_responses; updated_at is left out
ResponseData(service_name, lot, gcloud_version, answers, is_draft, is_locked) ==
    [service_name |-> service_name, lot |-> lot, gcloud_version |-> gcloud_version,
     answers |-> answers, is_draft |-> is_draft, is_locked |-> is_locked]

\* save_questionnaire_responses: the file is written whole, whatever it held;
\* a write that raises gives False
SaveQuestionnaireResponses(stored, service_name, lot, gcloud_version, answers, is_draft, is_locked, raises) ==
    IF raises THEN [stored |-> stored, success |-> FALSE]
    ELSE [stored  |-> [stored EXCEPT ![ResponseKey(service_name, lot, gcloud_version)] =
                          Some(ResponseData(service_name, lot, gcloud_version, answers,
                                            is_draft, is_locked))],
          success |-> TRUE]

\* the update of lock_questionnaire to the record it read
LockedData(response_data) == [response_data EXCEPT !.is_draft = FALSE, !.is_locked = TRUE]

otherThanQuestionnaire ==
    <<substVars, bodyVars, composeVars, keyVars, genVars, raceVars, tplVars, listVars>>

QuestionnaireInit ==
    /\ response_files = [k \in ResponseKeys |-> Absent]
    /\ locked_answers = [k \in ResponseKeys |-> Absent]
    /\ http_status = ""
    /\ SubstIdle
    /\ BodyIdle
    /\ ComposeIdle
    /\ KeyIdle
    /\ GenIdle
    /\ RaceIdle
    /\ TemplateIdle
    /\ ListingIdle

\* POST /responses
SaveResponses ==
    /\ \E f \in QuFolders, answers \in AnswerLists, is_draft \in BOOLEAN, is_locked \in BOOLEAN,
          raises \in BOOLEAN :
          LET r == SaveQuestionnaireResponses(response_files, f[1], f[2], f[3], answers,
                                              is_draft, is_locked, raises)
          IN  /\ response_files' = r.stored
              /\ http_status' = IF r.success THEN "200 saved" ELSE "500"
    /\ UNCHANGED locked_answers
    /\ UNCHANGED otherThanQuestionnaire

\* POST /responses/{service_name}/lock
LockQuestionnaire ==
    /\ \E f \in QuFolders, raises \in BOOLEAN :
          LET k == ResponseKey(f[1], f[2], f[3])
              succeeded ==
                  /\ locked_answers' =
                         IF locked_answers[k].present THEN locked_answers
                         ELSE [locked_answers EXCEPT ![k] = Some(response_files[k].value.answers)]
          IN  IF ~response_files[k].present
              THEN \* load_questionnaire_responses raises FileNotFoundError
                   /\ http_status' = "500"
                   /\ UNCHANGED <<response_files, locked_answers>>
              ELSE IF response_files[k].value.is_locked
              THEN /\ http_status' = "200 already locked"
                   /\ succeeded
                   /\ UNCHANGED response_files
              ELSE IF raises
              THEN /\ http_status' = "500"
                   /\ UNCHANGED <<response_files, locked_answers>>
              ELSE /\ response_files' =
                          [response_files EXCEPT ![k] = Some(LockedData(response_files[k].value))]
                   /\ http_status' = "200 locked"
                   /\ succeeded
    /\ UNCHANGED otherThanQuestionnaire

QuestionnaireNext ==
    \/ SaveResponses
    \/ LockQuestionnaire

SpecQuestionnaire == QuestionnaireInit /\ [][QuestionnaireNext]_vars

\* the stored record of the key is locked, is no draft and holds the answers
StaysLocked(k) ==
    /\ response_files[k].present
    /\ response_files[k].value.is_locked
    /\ ~response_files[k].value.is_draft
    /\ response_files[k].value.answers = locked_answers[k].value

\* C29: once lock_questionnaire has succeeded for a (service, lot, version),
\* in every later state reached by save_responses and lock_questionnaire
\* calls the stored record has is_locked=true and is_draft=false and holds
\* the answers stored at the time of locking
C29_LockIsPermanent ==
    \A k \in ResponseKeys : locked_answers[k].present => StaysLocked(k)

(***************************************************************************)
(* The section properties of the body                                      *)
(***************************************************************************)

HasSectPr(b) == \E k \in 1..Len(b) : b[k].tag = "sectPr"

\* the section properties are the last child of the body
SectPrLast(b) ==
    /\ b # <<>>
    /\ b[Len(b)].tag = "sectPr"
    /\ \A k \in 1..(Len(b) - 1) : b[k].tag # "sectPr"

\* C30: for every template shape, also one where another heading follows the
\* About block, after the About block is appended again the section
\* properties of the body are its last child: no paragraph and no table
\* comes after them
C30_SectPrStaysLast ==
    (cpc \in {"appended", "built"} /\ HasSectPr(tpl)) => SectPrLast(doc.b)

====
